---- MODULE Spec2Model ----
(***************************************************************************)
(* Model of the math service: the three calculation services               *)
(* (services/power.py, services/factorial.py, services/fibonacci.py) with  *)
(* the Redis cache, the Kafka producer, the metrics counters and the       *)
(* SQLite repository they call.                                            *)
(*                                                                         *)
(* A Python int is unbounded.  The model writes an int as the record       *)
(* [m |-> mantissa, x |-> power of ten], value m * 10^x, in one of two     *)
(* shapes: x = 0 and m any model integer ("small"), or m in {1, -1} and    *)
(* x >= HugeFrom ("huge", a signed power of ten).  A product of the        *)
(* factorial kernel of 2 * 10^9 or more carries its base-10^6 limbs        *)
(* themselves, least significant first, in a third field.  Every           *)
(* value the services produce has one shape only, so record equality is    *)
(* integer equality.                                                       *)
(***************************************************************************)
EXTENDS Integers, Sequences, FiniteSets, TLC

None == "None"

\* ------------------------------------------------------------------------
\* Python ints
\* ------------------------------------------------------------------------
HugeFrom == 9

PyInt(v) == [m |-> v, x |-> 0]

RECURSIVE IntPow(_, _)
IntPow(b, e) == IF e = 0 THEN 1 ELSE b * IntPow(b, e - 1)

Pow10(k) == IF k < HugeFrom THEN PyInt(IntPow(10, k)) ELSE [m |-> 1, x |-> k]

NegPow10(k) == IF k < HugeFrom THEN PyInt(0 - IntPow(10, k)) ELSE [m |-> -1, x |-> k]

IsHuge(a) == a.x > 0

\* a > b on Python ints
NumGT(a, b) ==
    IF IsHuge(a)
    THEN IF a.m > 0
         THEN IF IsHuge(b) /\ b.m > 0 THEN a.x > b.x ELSE TRUE
         ELSE IF IsHuge(b) /\ b.m < 0 THEN a.x < b.x ELSE FALSE
    ELSE IF IsHuge(b) THEN b.m < 0 ELSE a.m > b.m

RECURSIVE NumDigits(_)
NumDigits(v) == IF v < 10 THEN 1 ELSE 1 + NumDigits(v \div 10)

RECURSIVE IsPow10Int(_)
IsPow10Int(v) == IF v = 1 THEN TRUE
                 ELSE IF v < 10 \/ v % 10 # 0 THEN FALSE
                 ELSE IsPow10Int(v \div 10)

\* floor(log10(a)) for a > 1, and whether log10(a) is that integer exactly
Log10Floor(a) == a.x + NumDigits(a.m) - 1

Log10Exact(a) == IsPow10Int(a.m)

\* str(int): the decimal digits, most significant first, "-" in front of a
\* negative value
DigitChar(d) == <<"0", "1", "2", "3", "4", "5", "6", "7", "8", "9">>[d + 1]

RECURSIVE NatStr(_)
NatStr(v) == IF v < 10 THEN <<DigitChar(v)>>
             ELSE Append(NatStr(v \div 10), DigitChar(v % 10))

Zeros(k) == [i \in 1..k |-> "0"]

\* limbs: a positive int as its base-10^LimbDigits digits, least
\* significant first
LimbDigits == 6

LimbBase == IntPow(10, LimbDigits)

\* limbs * k for 0 < k < 2000, from limb i on with the carry so far; out
\* holds the i - 1 limbs already produced
RECURSIVE MulLimbs(_, _, _, _, _)
MulLimbs(limbs, k, i, carry, out) ==
    IF i > Len(limbs)
    THEN IF carry = 0 THEN out ELSE Append(out, carry)
    ELSE LET t == limbs[i] * k + carry
             next == Append(out, t % LimbBase)
         IN  IF Len(next) = i
             THEN MulLimbs(limbs, k, i + 1, t \div LimbBase, next)
             ELSE <<>>

\* a value of two limbs is held as one machine integer when its upper limb is
\* below this
SmallUpperLimb == 2000

\* the Python int with these limbs
FromLimbs(limbs) ==
    IF Len(limbs) = 1 THEN PyInt(limbs[1])
    ELSE IF Len(limbs) = 2 /\ limbs[2] < SmallUpperLimb
    THEN PyInt(limbs[1] + LimbBase * limbs[2])
    ELSE [m |-> 1, x |-> 0, limbs |-> limbs]

HasLimbs(a) == "limbs" \in DOMAIN a

\* the Python int of this sign with these limbs as its magnitude
SignedFromLimbs(negative, limbs) ==
    LET a == FromLimbs(limbs)
    IN  IF ~negative THEN a
        ELSE IF HasLimbs(a) THEN [a EXCEPT !.m = -1]
        ELSE PyInt(0 - a.m)

\* the decimal digits of v, zero-padded to width
RECURSIVE PadStr(_, _)
PadStr(v, width) ==
    IF width = 0 THEN <<>>
    ELSE Append(PadStr(v \div 10, width - 1), DigitChar(v % 10))

RECURSIVE LimbStr(_, _)
LimbStr(limbs, i) ==
    IF i = Len(limbs) THEN NatStr(limbs[i])
    ELSE LimbStr(limbs, i + 1) \o PadStr(limbs[i], LimbDigits)

str(a) ==
    IF HasLimbs(a)
    THEN IF a.m < 0 THEN <<"-">> \o LimbStr(a.limbs, 1) ELSE LimbStr(a.limbs, 1)
    ELSE LET mag == IF a.m < 0 THEN 0 - a.m ELSE a.m
             digits == NatStr(mag) \o Zeros(a.x)
         IN  IF a.m < 0 THEN <<"-">> \o digits ELSE digits

\* ------------------------------------------------------------------------
\* Settings (config.py): the computation limits
\* ------------------------------------------------------------------------
DefaultMaxFibonacciN == 10000
DefaultMaxFactorialN == 5000
DefaultMaxPowerBase == 1000
DefaultMaxPowerExponent == 1000

DefaultSettings ==
    [max_fibonacci_n |-> DefaultMaxFibonacciN,
     max_factorial_n |-> DefaultMaxFactorialN,
     max_power_base |-> PyInt(DefaultMaxPowerBase),
     max_power_exponent |-> DefaultMaxPowerExponent]

\* A deployment that raises the base ceiling through the environment
WideBaseExp10 == 60

WideSettings == [DefaultSettings EXCEPT !.max_power_base = Pow10(WideBaseExp10)]

SettingsChoices == {DefaultSettings, WideSettings}

\* ------------------------------------------------------------------------
\* Requests (domain/models.py) and error messages
\* ------------------------------------------------------------------------
PowerRequest(base, exponent) == [op |-> "power", base |-> base, exponent |-> exponent]

FactorialRequest(n) == [op |-> "factorial", n |-> n]

FibonacciRequest(n) == [op |-> "fibonacci", n |-> n]

MsgBaseCeiling == "Base must be <= max_power_base"
MsgExponentCeiling == "Exponent must be <= max_power_exponent"
MsgLargeBaseLargeExponent == "Calculation would result in overflow: large base with large exponent"
MsgBase10Exponent100 == "Calculation would result in overflow: base > 10 with exponent > 100"
MsgExponentTooLarge == "Exponent too large. Maximum safe exponent is 50"
MsgEstimatedDigits == "Result would be too large (estimated digits)"
MsgParametersOverflow == "Calculation parameters would cause overflow"
MsgFactorialCeiling == "N must be <= max_factorial_n"
MsgFactorialTooLarge == "Number too large for factorial calculation"
MsgFibonacciNegative == "N must be non-negative"
MsgFibonacciCeiling == "N must be <= max_fibonacci_n"
MsgSaveFailed == "save_operation failed"
MsgExponentNegative == "Exponent must be non-negative"
MsgFactorialNegative == "N must be non-negative"
MsgCacheRaised == "Redis connection failed"
MsgKafkaRaised == "Kafka connection failed"

\* PowerRequest.__post_init__ and FactorialRequest.__post_init__
\* (models.py 104-111, 163-168) on integer fields: the error raised, or
\* None; calculate_fibonacci takes n as it comes
ConstructionError(r) ==
    IF r.op = "power"
    THEN IF r.exponent < 0 THEN MsgExponentNegative ELSE None
    ELSE IF r.op = "factorial"
    THEN IF r.n < 0 THEN MsgFactorialNegative ELSE None
    ELSE None

\* ------------------------------------------------------------------------
\* PowerService.calculate_power: the checks between the cache miss and the
\* kernel, in the order of the code
\* ------------------------------------------------------------------------
LargeBase == 100
LargeExponent == 20
MediumBase == 10
MediumExponent == 100
MaxSafeExponent == 50
MaxEstimatedDigits == 1000

\* ceilings of the settings (power.py 50-56)
PowerCeilingError(s, r) ==
    IF NumGT(r.base, s.max_power_base) THEN MsgBaseCeiling
    ELSE IF r.exponent > s.max_power_exponent THEN MsgExponentCeiling
    ELSE None

\* log_result > 1000 where log_result = exponent * math.log10(base)
\* (power.py 80-81).  log10 is exact for a power of ten; otherwise
\* floor(log10) < log10 < floor(log10) + 1, which decides the comparison
\* whenever exponent * (floor + 1) <= 1000 or exponent * floor >= 1000; the
\* code evaluates it only with exponent <= 50, where, for every base of
\* the model that is not a power of ten, the first case applies.
LogResultTooLarge(base, exponent) ==
    IF Log10Exact(base)
    THEN exponent * Log10Floor(base) > MaxEstimatedDigits
    ELSE exponent * Log10Floor(base) >= MaxEstimatedDigits

\* the estimate block (power.py 77-86): the ValueError raised inside the
\* try is caught by its own except clause and replaced
EstimateError(r) ==
    IF NumGT(r.base, PyInt(1)) /\ r.exponent > 0
    THEN IF LogResultTooLarge(r.base, r.exponent)
         THEN MsgParametersOverflow
         ELSE None
    ELSE None

OverflowGuardError_ExponentFirst(r) ==
    IF r.exponent > MaxSafeExponent
    THEN MsgExponentTooLarge
    ELSE IF NumGT(r.base, PyInt(LargeBase)) /\ r.exponent > LargeExponent
    THEN MsgLargeBaseLargeExponent
    ELSE IF NumGT(r.base, PyInt(MediumBase)) /\ r.exponent > MediumExponent
    THEN MsgBase10Exponent100
    ELSE EstimateError(r)

OverflowGuardError_Inclusive(r) ==
    IF NumGT(r.base, PyInt(LargeBase)) /\ r.exponent > LargeExponent
    THEN MsgLargeBaseLargeExponent
    ELSE IF NumGT(r.base, PyInt(MediumBase)) /\ r.exponent > MediumExponent
    THEN MsgBase10Exponent100
    ELSE IF r.exponent >= MaxSafeExponent
    THEN MsgExponentTooLarge
    ELSE EstimateError(r)

\* overflow protection (power.py 58-86)
OverflowGuardError(r) ==
    IF NumGT(r.base, PyInt(LargeBase)) /\ r.exponent > LargeExponent
    THEN MsgLargeBaseLargeExponent
    ELSE IF NumGT(r.base, PyInt(MediumBase)) /\ r.exponent > MediumExponent
    THEN MsgBase10Exponent100
    ELSE IF r.exponent > MaxSafeExponent
    THEN MsgExponentTooLarge
    ELSE EstimateError(r)

PowerValidationError_GuardFirst(s, r) ==
    IF OverflowGuardError(r) # None
    THEN [stage |-> "guard", msg |-> OverflowGuardError(r)]
    ELSE IF PowerCeilingError(s, r) # None
    THEN [stage |-> "ceiling", msg |-> PowerCeilingError(s, r)]
    ELSE [stage |-> "ok", msg |-> None]

PowerValidationError(s, r) ==
    IF PowerCeilingError(s, r) # None
    THEN [stage |-> "ceiling", msg |-> PowerCeilingError(s, r)]
    ELSE IF OverflowGuardError(r) # None
    THEN [stage |-> "guard", msg |-> OverflowGuardError(r)]
    ELSE [stage |-> "ok", msg |-> None]

\* 1 multiplied passes times by mag, in limbs, for mag < 2000
RECURSIVE PowLimbs(_, _, _)
PowLimbs(result, mag, passes) ==
    IF passes = 0 THEN result
    ELSE LET product == MulLimbs(result, mag, 1, 0, <<>>)
         IN  IF Len(product) > 0 THEN PowLimbs(product, mag, passes - 1) ELSE <<>>

PowerKernel_Unsigned(base, exponent) ==
    LET mag == IF base.m < 0 THEN 0 - base.m ELSE base.m
    IN  IF IsHuge(base) \/ (mag > 1 /\ IsPow10Int(mag))
        THEN Pow10(Log10Floor([m |-> mag, x |-> base.x]) * exponent)
        ELSE FromLimbs(PowLimbs(<<1>>, mag, exponent))

\* request.base ** request.exponent (power.py 90)
PowerKernel(base, exponent) ==
    LET mag == IF base.m < 0 THEN 0 - base.m ELSE base.m
        negative == base.m < 0 /\ exponent % 2 = 1
    IN  IF IsHuge(base) \/ (mag > 1 /\ IsPow10Int(mag))
        THEN IF negative
             THEN NegPow10(Log10Floor([m |-> mag, x |-> base.x]) * exponent)
             ELSE Pow10(Log10Floor([m |-> mag, x |-> base.x]) * exponent)
        ELSE SignedFromLimbs(negative, PowLimbs(<<1>>, mag, exponent))

\* ------------------------------------------------------------------------
\* FactorialService._calculate_factorial (factorial.py 24-37)
\* ------------------------------------------------------------------------
MaxFactorialKernelN == 170

\* the passes of `result = 1; for i in range(2, n + 1): result *= i` from
\* pass Len(results) + 1 to pass last, in limbs: results holds the values
\* result has taken, entry 1 the initial 1 and entry i the result after the
\* pass for i
RECURSIVE LoopResults(_, _)
LoopResults(results, last) ==
    LET i == Len(results) + 1
    IN  IF i > last THEN results
        ELSE LoopResults(Append(results, MulLimbs(results[i - 1], i, 1, 0, <<>>)),
                         last)

\* the loop is tabulated once, in stretches of LoopStretch passes
LoopStretch == 60

LoopResultsFirst == LoopResults(<<(<<1>>)>>, LoopStretch)

LoopResultsSecond == LoopResults(LoopResultsFirst, 2 * LoopStretch)

FactorialLoopTable == LoopResults(LoopResultsSecond, 3 * LoopStretch)

\* result when the loop for n ends, n >= 2: the loop for n is the first
\* n - 1 passes of every longer loop
FactorialLoop(n) == FactorialLoopTable[n]

calculate_factorial_kernel_LimitPlusOne(n) ==
    IF n <= 1 THEN [raised |-> None, value |-> PyInt(1)]
    ELSE IF n > MaxFactorialKernelN + 1
    THEN [raised |-> MsgFactorialTooLarge, value |-> PyInt(0)]
    ELSE [raised |-> None, value |-> FromLimbs(FactorialLoop(n))]

calculate_factorial_kernel(n) ==
    IF n <= 1 THEN [raised |-> None, value |-> PyInt(1)]
    ELSE IF n > MaxFactorialKernelN
    THEN [raised |-> MsgFactorialTooLarge, value |-> PyInt(0)]
    ELSE [raised |-> None, value |-> FromLimbs(FactorialLoop(n))]

FactorialCeilingError(s, r) ==
    IF r.n > s.max_factorial_n THEN MsgFactorialCeiling ELSE None

\* ------------------------------------------------------------------------
\* FibonacciService._calculate_fibonacci (fibonacci.py 24-41); the memo is
\* the instance's _cache, a function from index to term
\* ------------------------------------------------------------------------
InitialMemo == (0 :> 0) @@ (1 :> 1)

RECURSIVE FibonacciLoop_CachesOperand(_, _, _, _, _)
FibonacciLoop_CachesOperand(a, b, i, n, memo) ==
    IF i > n THEN [value |-> b, memo |-> memo]
    ELSE LET nb == a + b
         IN  FibonacciLoop_CachesOperand(b, nb, i + 1, n,
                 IF i \in DOMAIN memo THEN memo ELSE memo @@ (i :> b))

\* a, b = 0, 1; for i in range(2, n + 1): a, b = b, a + b, each new term
\* stored in the memo unless its index is there already
RECURSIVE FibonacciLoop(_, _, _, _, _)
FibonacciLoop(a, b, i, n, memo) ==
    IF i > n THEN [value |-> b, memo |-> memo]
    ELSE LET nb == a + b
         IN  FibonacciLoop(b, nb, i + 1, n,
                           IF i \in DOMAIN memo THEN memo ELSE memo @@ (i :> nb))

calculate_fibonacci_kernel_SeedFromOne(memo, n) ==
    IF n \in DOMAIN memo THEN [value |-> memo[n], memo |-> memo]
    ELSE IF n < 2 THEN [value |-> n, memo |-> memo]
    ELSE FibonacciLoop(1, 1, 2, n, memo)

calculate_fibonacci_kernel(memo, n) ==
    IF n \in DOMAIN memo THEN [value |-> memo[n], memo |-> memo]
    ELSE IF n < 2 THEN [value |-> n, memo |-> memo]
    ELSE FibonacciLoop(0, 1, 2, n, memo)

\* how often the body of `for i in range(2, n + 1)` runs in that call: not
\* at all when the memo has n
FibonacciPasses(memo, n) ==
    IF n \in DOMAIN memo \/ n < 2 THEN 0 ELSE n - 1

FibonacciValidationError_NoSign(s, r) ==
    IF r.n > s.max_fibonacci_n THEN MsgFibonacciCeiling ELSE None

\* the validation of calculate_fibonacci (fibonacci.py 48-54), n an int
FibonacciValidationError(s, r) ==
    IF r.n < 0 THEN MsgFibonacciNegative
    ELSE IF r.n > s.max_fibonacci_n THEN MsgFibonacciCeiling
    ELSE None

\* ------------------------------------------------------------------------
\* infra/cache.py
\* ------------------------------------------------------------------------
\* Python's None where an int is expected
NoneInt == [m |-> 0, x |-> -1]

\* a Python str is the sequence of its characters
StrMath == <<"m", "a", "t", "h">>

StrPower == <<"p", "o", "w", "e", "r">>

StrFactorial == <<"f", "a", "c", "t", "o", "r", "i", "a", "l">>

StrFibonacci == <<"f", "i", "b", "o", "n", "a", "c", "c", "i">>

StrBase == <<"b", "a", "s", "e">>

StrExponent == <<"e", "x", "p", "o", "n", "e", "n", "t">>

StrN == <<"n">>

OperationName(op) ==
    CASE op = "power" -> StrPower
      [] op = "factorial" -> StrFactorial
      [] op = "fibonacci" -> StrFibonacci

Alphabet ==
    <<"a", "b", "c", "d", "e", "f", "g", "h", "i", "j", "k", "l", "m",
      "n", "o", "p", "q", "r", "s", "t", "u", "v", "w", "x", "y", "z">>

CharRank(c) == CHOOSE i \in 1..Len(Alphabet) : Alphabet[i] = c

\* a < b on str: by the first character that differs, a proper prefix first
RECURSIVE StrLess(_, _)
StrLess(a, b) ==
    IF a = <<>> THEN b # <<>>
    ELSE IF b = <<>> THEN FALSE
    ELSE IF Head(a) = Head(b) THEN StrLess(Tail(a), Tail(b))
    ELSE CharRank(Head(a)) < CharRank(Head(b))

\* sorted(params.items()): the (name, value) pairs by name; the names of
\* keyword arguments are distinct
RECURSIVE InsertItem(_, _)
InsertItem(item, items) ==
    IF items = <<>> THEN <<item>>
    ELSE IF StrLess(item[1], Head(items)[1]) THEN <<item>> \o items
    ELSE <<Head(items)>> \o InsertItem(item, Tail(items))

RECURSIVE sorted(_)
sorted(items) ==
    IF items = <<>> THEN <<>> ELSE InsertItem(Head(items), sorted(Tail(items)))

\* sep.join(parts)
RECURSIVE Join(_, _)
Join(sep, parts) ==
    IF parts = <<>> THEN <<>>
    ELSE IF Len(parts) = 1 THEN parts[1]
    ELSE parts[1] \o sep \o Join(sep, Tail(parts))

cache_key_for_operation_NoValues(operation_type, params) ==
    StrMath \o <<":">> \o operation_type

cache_key_for_operation_Unsorted(operation_type, params) ==
    StrMath \o <<":">> \o operation_type \o <<":">>
        \o Join(<<"&">>, [i \in 1..Len(params) |->
                            params[i][1] \o <<"=">> \o str(params[i][2])])

\* cache_key_for_operation(operation_type, **params):
\* f"math:{operation_type}:{param_str}", param_str the "k=v" of the sorted
\* items joined by "&"; params are the keyword arguments in the order passed
cache_key_for_operation(operation_type, params) ==
    LET sorted_params == sorted(params)
        param_str == Join(<<"&">>, [i \in 1..Len(sorted_params) |->
                        sorted_params[i][1] \o <<"=">> \o str(sorted_params[i][2])])
    IN  StrMath \o <<":">> \o operation_type \o <<":">> \o param_str

\* the parameters dict of the event and of the log entry
RequestParams(r) ==
    IF r.op = "power"
    THEN [base |-> r.base, exponent |-> PyInt(r.exponent)]
    ELSE [n |-> PyInt(r.n)]

\* the keyword arguments the services pass (power.py 30-32, factorial.py 46)
KeywordArgs(r) ==
    IF r.op = "power"
    THEN <<(<<StrBase, r.base>>), (<<StrExponent, PyInt(r.exponent)>>)>>
    ELSE <<(<<StrN, PyInt(r.n)>>)>>

RequestKey_Shared(r) == cache_key_for_operation(StrMath, <<>>)

RequestKey(r) == cache_key_for_operation(OperationName(r.op), KeywordArgs(r))

\* RedisCache.set serialises an int with pickle.dumps; RedisCache.get
\* reads it back with pickle.loads
PickleDumps(value) == [pickled |-> value]

PickleLoads(serialized) == serialized.pickled

\* RedisCache.get: None without a client, on a client error and on a
\* missing key
cache_get(store, key, fault) ==
    IF fault THEN NoneInt
    ELSE IF key \in DOMAIN store THEN PickleLoads(store[key])
    ELSE NoneInt

cache_set_Dropped(store, key, value, fault) == store

\* RedisCache.set: the store after the call (unchanged without a client or
\* on a client error)
cache_set(store, key, value, fault) ==
    IF fault THEN store
    ELSE [k \in DOMAIN store \cup {key} |->
            IF k = key THEN PickleDumps(value) ELSE store[k]]

IsCacheHit(cached_result) == cached_result # NoneInt

\* what a method gave its caller: a value, or an exception
Returned(v) == [raised |-> FALSE, value |-> v]

Raises == [raised |-> TRUE, value |-> None]

RedisCacheGet_NoHandler(held, store, key, clientError) ==
    IF ~held THEN Returned(NoneInt)
    ELSE IF clientError THEN Raises
    ELSE Returned(cache_get(store, key, FALSE))

\* RedisCache.get (cache.py 52-72) on an object that holds a client or not;
\* clientError: the client's get raises
RedisCacheGet(held, store, key, clientError) ==
    IF ~held THEN Returned(NoneInt)
    ELSE Returned(cache_get(store, key, clientError))

\* RedisCache.set (cache.py 74-98): what it returns, and the store after it
RedisCacheSet(held, store, key, value, clientError) ==
    IF ~held THEN [raised |-> FALSE, value |-> FALSE, store |-> store]
    ELSE [raised |-> FALSE, value |-> ~clientError,
          store |-> cache_set(store, key, value, clientError)]

\* RedisCache.delete (cache.py 100-110): bool(number of keys removed)
RedisCacheDelete(held, store, key, clientError) ==
    IF ~held \/ clientError
    THEN [raised |-> FALSE, value |-> FALSE, store |-> store]
    ELSE [raised |-> FALSE, value |-> key \in DOMAIN store,
          store |-> [k \in DOMAIN store \ {key} |-> store[k]]]

\* RedisCache.exists (cache.py 112-124): bool(number of keys found)
RedisCacheExists(held, store, key, clientError) ==
    IF ~held \/ clientError THEN Returned(FALSE)
    ELSE Returned(key \in DOMAIN store)

\* ------------------------------------------------------------------------
\* State
\* ------------------------------------------------------------------------
Procs == {"t1", "t2"}

\* the task that serves the requests when they do not overlap
Caller == "t1"

MaxInvocations == 2

VARIABLES
    settings,            \* config.settings, fixed for the process
    cache,               \* the Redis store: key -> serialised value
    log,                 \* the math_operations table, in commit order
    events,              \* the calls of send_operation_event, in order
    operation_count,     \* metrics counter by <<operation_type, status>>
    operation_duration,  \* number of histogram observations by operation_type
    inv,                 \* the invocation each task is running
    invocations,         \* number of invocations started so far
    kernelCalls,         \* per request: how often its kernel was called
    cacheReliable,       \* no cache call failed and no entry expired so far
    gReq,                \* request handed to the checks on their own
    gVerdict,            \* what the checks answered for gReq
    kArgs,               \* the calls of cache_key_for_operation compared
    kKeys,               \* the keys those calls returned
    memo,                \* FibonacciService._cache of the instance last called
    fibReturn,           \* the last _calculate_fibonacci call on it: n and value
    fibPasses,           \* the passes of the loop that call ran
    redisCache,          \* a RedisCache object called on its own
    producer,            \* a KafkaProducer object called on its own
    repo,                \* a SqliteRepository called on its own: its session
    app                  \* the application: where its lifespan is, what startup did

vars == <<settings, cache, log, events, operation_count, operation_duration,
          inv, invocations, kernelCalls, cacheReliable, gReq, gVerdict,
          kArgs, kKeys, memo, fibReturn, fibPasses, redisCache, producer,
          repo, app>>

\* the variables of the functions examined on their own
functionVars == <<gReq, gVerdict, kArgs, kKeys, memo, fibReturn, fibPasses>>

auxVars == <<functionVars, redisCache, producer, repo, app>>

pipelineVars == <<cache, log, events, operation_count, operation_duration,
                  inv, invocations, kernelCalls, cacheReliable>>

NoRequest == [op |-> "none"]

NoVerdict == [stage |-> "none", msg |-> None]

NoCalls == [get |-> 0, set |-> 0, event |-> 0, save |-> 0, kernel |-> 0,
            error_count |-> 0]

\* nothing returned (yet)
NoResult == [result |-> NoneInt]

\* no HTTP response (yet)
NoResponse == [status_code |-> 0, detail |-> None]

\* the value object returned to the caller: PowerResult, FactorialResult or
\* FibonacciResult (domain/models.py 115-176)
ResultObject(r, value) ==
    IF r.op = "power"
    THEN [base |-> r.base, exponent |-> r.exponent, result |-> value]
    ELSE [n |-> r.n, result |-> value]

\* time is counted in port calls: the reading of time.time() - start_time
\* is the number of port calls the invocation has awaited to their end since
\* start_time = time.time() (power.py 27, factorial.py 43, fibonacci.py 45)
PortCallsDone(calls) == calls.get + calls.set + calls.event + calls.save

\* duration_ms is None until the invocation reads the timer
IdleInvocation ==
    [pc |-> "idle", req |-> NoRequest, result |-> NoneInt, error |-> None,
     outcome |-> None, hit |-> FALSE, stage |-> "none", calls |-> NoCalls,
     faults |-> {}, returned |-> NoResult, exc |-> None, response |-> NoResponse,
     duration_ms |-> None]

\* the requests the callers send
Requests ==
    {PowerRequest(PyInt(2), 10), PowerRequest(PyInt(10), 50),
     PowerRequest(PyInt(150), 25), PowerRequest(PyInt(15), 1001),
     PowerRequest(PyInt(1001), 51),
     FactorialRequest(5), FactorialRequest(171), FactorialRequest(5001),
     FibonacciRequest(10), FibonacciRequest(10001)}

OperationTypes == {"power", "fibonacci", "factorial"}

Statuses == {"success", "error"}

Inc_Twice(counter, label) == [counter EXCEPT ![label] = @ + 2]

\* Counter.labels(...).inc() and Histogram.labels(...).observe(...): one more
\* under the label
Inc(counter, label) == [counter EXCEPT ![label] = @ + 1]

\* Python's None where a str is expected
NoneStr == <<None>>

OperationEvent_StrOfNone(r, result, success, error, sent) ==
    [event_type |-> "math_operation", operation_type |-> r.op,
     parameters |-> RequestParams(r),
     result |-> IF result = NoneInt THEN <<"N", "o", "n", "e">> ELSE str(result),
     success |-> success, error |-> error, sent |-> sent]

\* the event send_operation_event builds (messaging.py 64-73); sent tells
\* whether send_and_wait completed
OperationEvent(r, result, success, error, sent) ==
    [event_type |-> "math_operation", operation_type |-> r.op,
     parameters |-> RequestParams(r),
     result |-> IF result = NoneInt THEN NoneStr ELSE str(result),
     success |-> success, error |-> error, sent |-> sent]

\* the row MathOperationModel.from_domain builds (sqlite_repo.py 57-65)
LogEntry(r, result) ==
    [operation_type |-> r.op, parameters |-> RequestParams(r), result |-> str(result)]

\* SqliteRepository.save_operation: the table after the call; a failed
\* commit is rolled back
save_operation_Unique(table, entry, fault) ==
    IF fault \/ \E k \in 1..Len(table) : table[k] = entry
    THEN table ELSE Append(table, entry)

save_operation(table, entry, fault) ==
    IF fault THEN table ELSE Append(table, entry)

\* nothing served yet: empty cache, empty table, counters at zero; requests
\* are the requests the callers are going to send
PipelineStart(requests) ==
    /\ cache = <<>>
    /\ log = <<>>
    /\ events = <<>>
    /\ operation_count = [l \in OperationTypes \X Statuses |-> 0]
    /\ operation_duration = [t \in OperationTypes |-> 0]
    /\ inv = [p \in Procs |-> IdleInvocation]
    /\ invocations = 0
    /\ kernelCalls = [r \in requests |-> 0]
    /\ cacheReliable = TRUE

NoReturn == [n |-> -1, value |-> -1]

\* no function is being examined on its own
GuardIdle == gReq = NoRequest /\ gVerdict = NoVerdict

KeysIdle == kArgs = <<>> /\ kKeys = <<>>

MemoIdle == memo = InitialMemo /\ fibReturn = NoReturn /\ fibPasses = 0

\* what a call of an adapter method gave its caller; held tells whether the
\* adapter held a client when it was called
NoCall == [op |-> "none", held |-> FALSE, raised |-> FALSE, value |-> None]

\* RedisCache() (cache.py 19-20): _redis is None; enabled is
\* settings.redis_enabled, closed tells that aclose() was awaited on the
\* client held
NewRedisCache(enabled) ==
    [enabled |-> enabled, held |-> FALSE, closed |-> FALSE, last |-> NoCall]

\* KafkaProducer() (messaging.py 17-18): _producer is None; topic holds the
\* event types of the messages delivered
NewKafkaProducer(enabled) ==
    [enabled |-> enabled, held |-> FALSE, stopped |-> FALSE, topic |-> <<>>,
     last |-> NoCall]

\* SqliteRepository(session) (sqlite_repo.py 119-121) on a session with
\* nothing pending; saved lists the operations whose save_operation returned
\* The application before its lifespan is entered (main.py 75-84); broker
\* tells whether the Kafka broker can be reached.
AppCreated(broker) ==
    [phase |-> "created", broker |-> broker, connect_calls |-> 0,
     start_calls |-> 0, warnings |-> {}]

NewApp == AppCreated(TRUE)

NoQuery ==
    [op |-> "none", operation_type |-> None, limit |-> 0, entry |-> None,
     raised |-> FALSE, value |-> None]

NewRepository == [pending |-> <<>>, saved |-> <<>>, last |-> NoQuery]

AdaptersIdle ==
    /\ redisCache = NewRedisCache(TRUE)
    /\ producer = NewKafkaProducer(TRUE)
    /\ repo = NewRepository
    /\ app = NewApp

Init ==
    /\ settings = DefaultSettings
    /\ PipelineStart(Requests)
    /\ GuardIdle
    /\ KeysIdle
    /\ MemoIdle
    /\ AdaptersIdle

\* ------------------------------------------------------------------------
\* The synchronous code between the cache miss and the cache write
\* (power.py 50-94, factorial.py 59-64): the error raised, or the value
\* computed, and whether the kernel was called
\* ------------------------------------------------------------------------
Rejected_Proceeds(stage, msg, kernelCalled) ==
    [stage |-> stage, error |-> None, value |-> PyInt(0), kernel |-> kernelCalled]

Rejected(stage, msg, kernelCalled) ==
    [stage |-> stage, error |-> msg, value |-> NoneInt, kernel |-> kernelCalled]

Computed(value) ==
    [stage |-> "ok", error |-> None, value |-> value, kernel |-> TRUE]

ComputePower_CeilingsOnly(s, r) ==
    IF PowerCeilingError(s, r) # None
    THEN Rejected("ceiling", PowerCeilingError(s, r), FALSE)
    ELSE Computed(PowerKernel(r.base, r.exponent))

ComputePower(s, r) ==
    LET v == PowerValidationError(s, r)
    IN  IF v.stage # "ok" THEN Rejected(v.stage, v.msg, FALSE)
        ELSE Computed(PowerKernel(r.base, r.exponent))

ComputeFactorial(s, r) ==
    IF FactorialCeilingError(s, r) # None
    THEN Rejected("ceiling", FactorialCeilingError(s, r), FALSE)
    ELSE LET k == calculate_factorial_kernel(r.n)
         IN  IF k.raised # None THEN Rejected("kernel", k.raised, TRUE)
             ELSE Computed(k.value)

\* service is the _cache of the instance called
ComputeFibonacciOn(s, r, service) ==
    IF FibonacciValidationError(s, r) # None
    THEN Rejected("ceiling", FibonacciValidationError(s, r), FALSE)
    ELSE Computed(PyInt(calculate_fibonacci_kernel(service, r.n).value))

ComputeFibonacci(s, r) == ComputeFibonacciOn(s, r, InitialMemo)

Compute(s, r) ==
    IF r.op = "power" THEN ComputePower(s, r) ELSE ComputeFactorial(s, r)

CountKernel(c, r) == IF c.kernel THEN Inc(kernelCalls, r) ELSE kernelCalls

\* ------------------------------------------------------------------------
\* calculate_power / calculate_factorial, one action per await
\* ------------------------------------------------------------------------
\* the caller awaits calculate_power(request) or calculate_factorial(request):
\* the key is built and cache.get is awaited
Begin(p, r) ==
    /\ inv[p].pc = "idle"
    /\ invocations < MaxInvocations
    /\ r.op \in {"power", "factorial"}
    /\ ConstructionError(r) = None
    /\ invocations' = invocations + 1
    /\ inv' = [inv EXCEPT ![p] = [IdleInvocation EXCEPT !.pc = "cache_get", !.req = r]]
    /\ UNCHANGED <<settings, cache, log, events, operation_count,
                   operation_duration, kernelCalls, cacheReliable, auxVars>>

\* the endpoint builds the request object and the constructor raises: the
\* service is never called (api/v1/power.py 46-48 and 59-60,
\* api/v1/factorial.py 44)
RejectRequest(p, r) ==
    /\ inv[p].pc = "idle"
    /\ invocations < MaxInvocations
    /\ r.op \in {"power", "factorial"}
    /\ ConstructionError(r) # None
    /\ invocations' = invocations + 1
    /\ inv' = [inv EXCEPT ![p] =
          [IdleInvocation EXCEPT !.pc = "done", !.req = r, !.outcome = "failure",
                                 !.stage = "construction",
                                 !.error = ConstructionError(r),
                                 !.exc = "ValueError"]]
    /\ UNCHANGED <<settings, cache, log, events, operation_count,
                   operation_duration, kernelCalls, cacheReliable, auxVars>>

\* what a cache hit changes: the result object is built and returned
\* (power.py 37-48, factorial.py 51-57)
HitReturn_Refresh(i, cached_result) ==
    [i EXCEPT !.pc = "cache_set", !.hit = TRUE, !.result = cached_result]

HitReturn(i, cached_result) ==
    [i EXCEPT !.pc = "done", !.outcome = "success", !.hit = TRUE,
              !.result = cached_result,
              !.returned = ResultObject(i.req, cached_result)]

\* cache.get returns; on a hit the result is returned, on a miss the checks
\* and the kernel run up to the await of cache.set
CacheGet(p) ==
    /\ inv[p].pc = "cache_get"
    /\ \E fault \in BOOLEAN :
        LET i == [inv[p] EXCEPT !.calls.get = @ + 1,
                                !.faults = IF fault THEN @ \cup {"get"} ELSE @]
            cached_result == cache_get(cache, RequestKey(i.req), fault)
            c == Compute(settings, i.req)
        IN  /\ cacheReliable' = (cacheReliable /\ ~fault)
            /\ IF IsCacheHit(cached_result)
               THEN /\ inv' = [inv EXCEPT ![p] = HitReturn(i, cached_result)]
                    /\ UNCHANGED kernelCalls
               ELSE /\ kernelCalls' = CountKernel(c, i.req)
                    /\ inv' = [inv EXCEPT ![p] =
                         [i EXCEPT !.stage = c.stage,
                                   !.calls.kernel = IF c.kernel THEN 1 ELSE 0,
                                   !.pc = IF c.error # None THEN "error_event" ELSE "cache_set",
                                   !.error = c.error,
                                   !.exc = IF c.error # None THEN "ValueError" ELSE None,
                                   !.result = c.value]]
    /\ UNCHANGED <<settings, cache, log, events, operation_count,
                   operation_duration, invocations, auxVars>>

\* cache.set(cache_key, result, ttl=3600) returns (power.py 97), the event
\* is built and send_operation_event is awaited
CacheSet(p) ==
    /\ inv[p].pc = "cache_set"
    /\ \E fault \in BOOLEAN :
        /\ cache' = cache_set(cache, RequestKey(inv[p].req), inv[p].result, fault)
        /\ cacheReliable' = (cacheReliable /\ ~fault)
        /\ inv' = [inv EXCEPT ![p].pc = "send_event",
                              ![p].calls.set = @ + 1,
                              ![p].faults = IF fault THEN @ \cup {"set"} ELSE @,
                              ![p].duration_ms =
                                  PortCallsDone(inv[p].calls) + 1]
    /\ UNCHANGED <<settings, log, events, operation_count, operation_duration,
                   invocations, kernelCalls, auxVars>>

\* send_operation_event(..., result=result) returns (power.py 119-127); it
\* never raises, a failed send only returns False
AfterSendEvent_Raises(i, fault) ==
    [i EXCEPT !.pc = IF fault THEN "error_event" ELSE "save",
              !.error = IF fault THEN "KafkaError" ELSE @,
              !.calls.event = @ + 1,
              !.faults = IF fault THEN @ \cup {"event"} ELSE @]

AfterSendEvent_ThenCacheSet(i, fault) ==
    [i EXCEPT !.pc = "cache_set",
              !.calls.event = @ + 1,
              !.faults = IF fault THEN @ \cup {"event"} ELSE @]

AfterSendEvent(i, fault) ==
    [i EXCEPT !.pc = "save",
              !.calls.event = @ + 1,
              !.faults = IF fault THEN @ \cup {"event"} ELSE @]

SendEvent(p) ==
    /\ inv[p].pc = "send_event"
    /\ \E fault \in BOOLEAN :
        /\ events' = Append(events,
               OperationEvent(inv[p].req, inv[p].result, TRUE, None, ~fault))
        /\ inv' = [inv EXCEPT ![p] = AfterSendEvent(inv[p], fault)]
    /\ UNCHANGED <<settings, cache, log, operation_count, operation_duration,
                   invocations, kernelCalls, cacheReliable, auxVars>>

AfterSaveFailure_Swallows(i) ==
    [i EXCEPT !.pc = "done", !.outcome = "success"]

\* what the code after a failed save_operation does with the exception:
\* the except block is entered (power.py 154, factorial.py 113)
AfterSaveFailure(i) ==
    [i EXCEPT !.pc = "error_event", !.error = MsgSaveFailed,
              !.exc = "SQLAlchemyError"]

\* repository.save_operation returns or raises (power.py 142-152)
SaveOperation(p) ==
    /\ inv[p].pc = "save"
    /\ inv[p].req.op \in {"power", "factorial"}
    /\ \E fault \in BOOLEAN :
        LET i == [inv[p] EXCEPT !.calls.save = @ + 1,
                                !.faults = IF fault THEN @ \cup {"save"} ELSE @]
        IN  /\ log' = save_operation(log, LogEntry(i.req, i.result), fault)
            /\ IF fault
               THEN /\ inv' = [inv EXCEPT ![p] = AfterSaveFailure(i)]
                    /\ UNCHANGED <<operation_count, operation_duration>>
               ELSE /\ operation_count' = Inc(operation_count, <<i.req.op, "success">>)
                    /\ operation_duration' = Inc(operation_duration, i.req.op)
                    /\ inv' = [inv EXCEPT ![p] =
                         [i EXCEPT !.pc = "done", !.outcome = "success",
                                   !.returned = ResultObject(i.req, i.result)]]
    /\ UNCHANGED <<settings, cache, events, invocations, kernelCalls,
                   cacheReliable, auxVars>>

\* the except block: send_operation_event(..., success=False, error=str(e))
\* returns, the error counter is incremented and the exception re-raised
\* (power.py 154-181, factorial.py 113-136)
ErrorEvent(p) ==
    /\ inv[p].pc = "error_event"
    /\ \E fault \in BOOLEAN :
        /\ events' = Append(events,
               OperationEvent(inv[p].req, NoneInt, FALSE, inv[p].error, ~fault))
        /\ inv' = [inv EXCEPT ![p].pc = "done", ![p].outcome = "failure",
                              ![p].result = NoneInt,
                              ![p].calls.event = @ + 1,
                              ![p].calls.error_count = @ + 1,
                              ![p].faults = IF fault THEN @ \cup {"event"} ELSE @,
                              ![p].duration_ms = PortCallsDone(inv[p].calls)]
    /\ operation_count' = Inc(operation_count, <<inv[p].req.op, "error">>)
    /\ UNCHANGED <<settings, cache, log, operation_duration, invocations,
                   kernelCalls, cacheReliable, auxVars>>

\* the caller takes the result or the exception
Return(p) ==
    /\ inv[p].pc = "done"
    /\ inv' = [inv EXCEPT ![p] = IdleInvocation]
    /\ UNCHANGED <<settings, cache, log, events, operation_count,
                   operation_duration, invocations, kernelCalls, cacheReliable,
                   auxVars>>

MsgInternalServerError == "Internal server error"

EndpointResponse_AlwaysClientError(i) ==
    IF i.outcome = "success" THEN [status_code |-> 200, detail |-> None]
    ELSE [status_code |-> 400, detail |-> i.error]

\* what the endpoint makes of the service call (api/v1/power.py 42-63,
\* api/v1/factorial.py 42-58, api/v1/fibonacci.py 33-46): the response model
\* with 200, `except ValueError` with 400 and the message, `except Exception`
\* with 500
EndpointResponse(i) ==
    IF i.outcome = "success" THEN [status_code |-> 200, detail |-> None]
    ELSE IF i.exc = "ValueError" THEN [status_code |-> 400, detail |-> i.error]
    ELSE [status_code |-> 500, detail |-> MsgInternalServerError]

\* the endpoint takes the result or the exception and answers the client
Respond(p) ==
    /\ inv[p].pc = "done"
    /\ inv' = [inv EXCEPT ![p].pc = "responded",
                          ![p].response = EndpointResponse(inv[p])]
    /\ UNCHANGED <<settings, cache, log, events, operation_count,
                   operation_duration, invocations, kernelCalls, cacheReliable,
                   auxVars>>

\* Redis drops an entry whose ttl (setex, cache.py 95) has run out
Expire(k) ==
    /\ k \in DOMAIN cache
    /\ cache' = [j \in DOMAIN cache \ {k} |-> cache[j]]
    /\ cacheReliable' = FALSE
    /\ UNCHANGED <<settings, log, events, operation_count, operation_duration,
                   inv, invocations, kernelCalls, auxVars>>

\* ------------------------------------------------------------------------
\* The same awaits when the port behind them raises into the service
\* instead of degrading (the ports replaced as in
\* tests/integration/test_cache_messaging.py 147-215); every await of
\* calculate_power and calculate_factorial lies inside the try, so the
\* exception enters `except Exception` (power.py 154, factorial.py 113)
\* ------------------------------------------------------------------------
\* cache.get raises (power.py 36)
CacheGetRaises(p) ==
    /\ inv[p].pc = "cache_get"
    /\ inv' = [inv EXCEPT ![p].pc = "error_event",
                          ![p].error = MsgCacheRaised,
                          ![p].exc = "Exception",
                          ![p].calls.get = @ + 1,
                          ![p].faults = @ \cup {"get_raised"}]
    /\ cacheReliable' = FALSE
    /\ UNCHANGED <<settings, cache, log, events, operation_count,
                   operation_duration, invocations, kernelCalls, auxVars>>

\* cache.set raises (power.py 97): nothing is stored
CacheSetRaises(p) ==
    /\ inv[p].pc = "cache_set"
    /\ inv' = [inv EXCEPT ![p].pc = "error_event",
                          ![p].error = MsgCacheRaised,
                          ![p].exc = "Exception",
                          ![p].calls.set = @ + 1,
                          ![p].faults = @ \cup {"set_raised"}]
    /\ cacheReliable' = FALSE
    /\ UNCHANGED <<settings, cache, log, events, operation_count,
                   operation_duration, invocations, kernelCalls, auxVars>>

\* send_operation_event(..., result=result) raises (power.py 119-127)
SendEventRaises(p) ==
    /\ inv[p].pc = "send_event"
    /\ events' = Append(events,
           OperationEvent(inv[p].req, inv[p].result, TRUE, None, FALSE))
    /\ inv' = [inv EXCEPT ![p].pc = "error_event",
                          ![p].error = MsgKafkaRaised,
                          ![p].exc = "Exception",
                          ![p].calls.event = @ + 1,
                          ![p].faults = @ \cup {"event_raised"}]
    /\ UNCHANGED <<settings, cache, log, operation_count, operation_duration,
                   invocations, kernelCalls, cacheReliable, auxVars>>

\* send_operation_event(..., success=False) raises inside the except block
\* (power.py 157-168): the block is left with the new exception before the
\* error counter is reached
ErrorEventRaises(p) ==
    /\ inv[p].pc = "error_event"
    /\ events' = Append(events,
           OperationEvent(inv[p].req, NoneInt, FALSE, inv[p].error, FALSE))
    /\ inv' = [inv EXCEPT ![p].pc = "done", ![p].outcome = "failure",
                          ![p].result = NoneInt,
                          ![p].error = MsgKafkaRaised,
                          ![p].exc = "Exception",
                          ![p].calls.event = @ + 1,
                          ![p].faults = @ \cup {"event_raised"},
                          ![p].duration_ms = PortCallsDone(inv[p].calls)]
    /\ UNCHANGED <<settings, cache, log, operation_count, operation_duration,
                   invocations, kernelCalls, cacheReliable, auxVars>>

\* ------------------------------------------------------------------------
\* FibonacciService.calculate_fibonacci (fibonacci.py 43-108): no cache
\* call and no event; the service instance, and with it the memo, is built
\* for the request (api/deps.py 103-107)
\* ------------------------------------------------------------------------
\* the caller awaits calculate_fibonacci(n): validation and kernel run up to
\* the await of save_operation; a rejection goes through the except block
FibStartOn(p, r, service) ==
    /\ inv[p].pc = "idle"
    /\ invocations < MaxInvocations
    /\ r.op = "fibonacci"
    /\ invocations' = invocations + 1
    /\ LET c == ComputeFibonacciOn(settings, r, service)
           i == [IdleInvocation EXCEPT !.req = r, !.stage = c.stage,
                                       !.calls.kernel = IF c.kernel THEN 1 ELSE 0,
                                       !.duration_ms = 0]
       IN  /\ kernelCalls' = CountKernel(c, r)
           /\ IF c.error # None
              THEN /\ inv' = [inv EXCEPT ![p] =
                        [i EXCEPT !.pc = "done", !.outcome = "failure",
                                  !.error = c.error, !.exc = "ValueError",
                                  !.calls.error_count = 1]]
                   /\ operation_count' = Inc(operation_count, <<"fibonacci", "error">>)
              ELSE /\ inv' = [inv EXCEPT ![p] = [i EXCEPT !.pc = "save", !.result = c.value]]
                   /\ UNCHANGED operation_count
    /\ UNCHANGED <<settings, cache, log, events, operation_duration,
                   cacheReliable>>

FibStart(p, r) == FibStartOn(p, r, InitialMemo)

FibBegin(p, r) == FibStart(p, r) /\ UNCHANGED auxVars

\* the same with the service instance in view: the endpoint is handed
\* FibonacciService(repository), built for this request with _cache =
\* {0: 0, 1: 1} (api/deps.py 103-107, fibonacci.py 19-22), and awaits its
\* calculate_fibonacci
FibServeOn(p, r, service) ==
    /\ FibStartOn(p, r, service)
    /\ LET k == calculate_fibonacci_kernel(service, r.n)
       IN  IF FibonacciValidationError(settings, r) # None
           THEN /\ memo' = service
                /\ fibReturn' = NoReturn
                /\ fibPasses' = 0
           ELSE /\ memo' = k.memo
                /\ fibReturn' = [n |-> r.n, value |-> k.value]
                /\ fibPasses' = FibonacciPasses(service, r.n)
    /\ UNCHANGED <<gReq, gVerdict, kArgs, kKeys, redisCache, producer, repo, app>>

FibServe(p, r) == FibServeOn(p, r, InitialMemo)

\* calculate_fibonacci awaited on the instance an earlier call has used: a
\* caller that keeps one FibonacciService, as the service tests do
FibServeKept(p, r) == FibServeOn(p, r, memo)

\* repository.save_operation returns or raises (fibonacci.py 83-108)
FibSave(p) ==
    /\ inv[p].pc = "save"
    /\ inv[p].req.op = "fibonacci"
    /\ \E fault \in BOOLEAN :
        LET i == [inv[p] EXCEPT !.calls.save = @ + 1,
                                !.faults = IF fault THEN @ \cup {"save"} ELSE @]
        IN  /\ log' = save_operation(log, LogEntry(i.req, i.result), fault)
            /\ IF fault
               THEN /\ inv' = [inv EXCEPT ![p] =
                         [i EXCEPT !.pc = "done", !.outcome = "failure",
                                   !.error = MsgSaveFailed, !.result = NoneInt,
                                   !.exc = "SQLAlchemyError",
                                   !.calls.error_count = 1,
                                   !.duration_ms = PortCallsDone(i.calls)]]
                    /\ operation_count' = Inc(operation_count, <<"fibonacci", "error">>)
                    /\ UNCHANGED operation_duration
               ELSE /\ operation_count' = Inc(operation_count, <<"fibonacci", "success">>)
                    /\ operation_duration' = Inc(operation_duration, "fibonacci")
                    /\ inv' = [inv EXCEPT ![p] =
                         [i EXCEPT !.pc = "done", !.outcome = "success",
                                   !.returned = ResultObject(i.req, i.result)]]
    /\ UNCHANGED <<settings, cache, events, invocations, kernelCalls,
                   cacheReliable, auxVars>>

\* ------------------------------------------------------------------------
\* Specifications
\* ------------------------------------------------------------------------
\* invocations that do not overlap: the caller starts one only when none
\* is running
AllIdle == \A p \in Procs : inv[p].pc = "idle"

Next ==
    \/ \E r \in Requests : AllIdle /\ Begin(Caller, r)
    \/ \E r \in Requests : AllIdle /\ FibBegin(Caller, r)
    \/ \E p \in Procs : CacheGet(p)
    \/ \E p \in Procs : CacheSet(p)
    \/ \E p \in Procs : SendEvent(p)
    \/ \E p \in Procs : SaveOperation(p)
    \/ \E p \in Procs : FibSave(p)
    \/ \E p \in Procs : ErrorEvent(p)
    \/ \E p \in Procs : Return(p)
    \/ \E k \in DOMAIN cache : Expire(k)

Spec == Init /\ [][Next]_vars

\* the checks of calculate_power on their own, over a grid of requests
GuardMaxBase == 1001

GuardMaxExponent == 1001

GuardBases ==
    {PyInt(b) : b \in 0..GuardMaxBase}
    \cup {PyInt(-150), NegPow10(WideBaseExp10)}
    \cup {Pow10(k) : k \in {49, 50, 51, WideBaseExp10, WideBaseExp10 + 1}}

GuardExponents == 0..GuardMaxExponent

GuardInit ==
    /\ settings \in SettingsChoices
    /\ PipelineStart(Requests)
    /\ \E b \in GuardBases, e \in GuardExponents : gReq = PowerRequest(b, e)
    /\ gVerdict = NoVerdict
    /\ KeysIdle
    /\ MemoIdle
    /\ AdaptersIdle

GuardEvaluate ==
    /\ gVerdict = NoVerdict
    /\ gReq # NoRequest
    /\ gVerdict' = PowerValidationError(settings, gReq)
    /\ UNCHANGED <<settings, gReq, kArgs, kKeys, memo, fibReturn, fibPasses,
                   redisCache, producer, repo, app>>
    /\ UNCHANGED pipelineVars

GuardNext == GuardEvaluate

GuardSpec == GuardInit /\ [][GuardNext]_vars

\* requests with a negative field, next to valid ones: the same services,
\* non-overlapping invocations
EdgeRequests ==
    {PowerRequest(PyInt(-2), 3), PowerRequest(NegPow10(WideBaseExp10), 20),
     PowerRequest(PyInt(2), -1), FactorialRequest(-1),
     FibonacciRequest(-1), FibonacciRequest(1)}

EdgeInit ==
    /\ settings = DefaultSettings
    /\ PipelineStart(EdgeRequests)
    /\ GuardIdle
    /\ KeysIdle
    /\ MemoIdle
    /\ AdaptersIdle

\* one step of an invocation already started
PipelineStep ==
    \/ \E p \in Procs : CacheGet(p)
    \/ \E p \in Procs : CacheSet(p)
    \/ \E p \in Procs : SendEvent(p)
    \/ \E p \in Procs : SaveOperation(p)
    \/ \E p \in Procs : FibSave(p)
    \/ \E p \in Procs : ErrorEvent(p)
    \/ \E p \in Procs : Return(p)
    \/ \E k \in DOMAIN cache : Expire(k)

EdgeNext ==
    \/ \E r \in EdgeRequests : AllIdle /\ RejectRequest(Caller, r)
    \/ \E r \in EdgeRequests : AllIdle /\ Begin(Caller, r)
    \/ \E r \in EdgeRequests : AllIdle /\ FibBegin(Caller, r)
    \/ PipelineStep

EdgeSpec == EdgeInit /\ [][EdgeNext]_vars

\* calculate_factorial for every n up to past the kernel's limit, one
\* invocation on an empty cache, under the default ceiling and a lower one
FactMaxN == 172

LowFactorialCeiling == 100

LowFactorialSettings ==
    [DefaultSettings EXCEPT !.max_factorial_n = LowFactorialCeiling]

FactorialNs == (0..FactMaxN) \cup {DefaultMaxFactorialN, DefaultMaxFactorialN + 1}

FactRequests == {FactorialRequest(n) : n \in FactorialNs}

FactInit ==
    /\ settings \in {DefaultSettings, LowFactorialSettings}
    /\ PipelineStart(FactRequests)
    /\ GuardIdle
    /\ KeysIdle
    /\ MemoIdle
    /\ AdaptersIdle

FactNext ==
    \/ \E r \in FactRequests : invocations = 0 /\ AllIdle /\ Begin(Caller, r)
    \/ \E p \in Procs : CacheGet(p)
    \/ \E p \in Procs : CacheSet(p)
    \/ \E p \in Procs : SendEvent(p)
    \/ \E p \in Procs : SaveOperation(p)
    \/ \E p \in Procs : ErrorEvent(p)
    \/ \E p \in Procs : Return(p)

FactSpec == FactInit /\ [][FactNext]_vars

\* cache_key_for_operation on its own: two calls and the keys they return
KeyMaxValue == 10

KeyValues == {PyInt(v) : v \in -1..KeyMaxValue}

KeyCalls ==
    {[operation_type |-> StrPower,
      params |-> <<(<<StrBase, b>>), (<<StrExponent, e>>)>>] : b, e \in KeyValues}
    \cup {[operation_type |-> StrPower,
           params |-> <<(<<StrExponent, e>>), (<<StrBase, b>>)>>] : b, e \in KeyValues}
    \cup {[operation_type |-> o, params |-> <<(<<StrN, n>>)>>] :
            o \in {StrFactorial, StrFibonacci}, n \in KeyValues}

KeyInit ==
    /\ settings = DefaultSettings
    /\ PipelineStart(Requests)
    /\ GuardIdle
    /\ MemoIdle
    /\ AdaptersIdle
    /\ \E a, b \in KeyCalls : kArgs = <<a, b>>
    /\ kKeys = <<>>

KeyEvaluate ==
    /\ kArgs # <<>>
    /\ kKeys = <<>>
    /\ kKeys' = [i \in 1..2 |->
                   cache_key_for_operation(kArgs[i].operation_type, kArgs[i].params)]
    /\ UNCHANGED <<settings, gReq, gVerdict, kArgs, memo, fibReturn, fibPasses,
                   redisCache, producer, repo, app>>
    /\ UNCHANGED pipelineVars

KeyNext == KeyEvaluate

KeySpec == KeyInit /\ [][KeyNext]_vars

\* calculate_power over a grid of requests, one invocation each
PowMaxBase == 12

PowMaxExponent == 21

PowerBases ==
    {PyInt(b) : b \in (0 - PowMaxBase..PowMaxBase) \cup {99, 100, 101, 999, 1000, 1001}}

PowerExponents == (0..PowMaxExponent) \cup {50, 51}

PowRequests == {PowerRequest(b, e) : b \in PowerBases, e \in PowerExponents}

PowInit ==
    /\ settings = DefaultSettings
    /\ PipelineStart(PowRequests)
    /\ GuardIdle
    /\ KeysIdle
    /\ MemoIdle
    /\ AdaptersIdle

PowNext ==
    \/ \E r \in PowRequests : invocations = 0 /\ AllIdle /\ Begin(Caller, r)
    \/ \E p \in Procs : CacheGet(p)
    \/ \E p \in Procs : CacheSet(p)
    \/ \E p \in Procs : SendEvent(p)
    \/ \E p \in Procs : SaveOperation(p)
    \/ \E p \in Procs : ErrorEvent(p)
    \/ \E p \in Procs : Return(p)

PowSpec == PowInit /\ [][PowNext]_vars

\* fibonacci requests served one after the other by the running service
ServeMaxN == 12

ServeRequests ==
    {FibonacciRequest(n) : n \in (0..ServeMaxN) \cup {DefaultMaxFibonacciN + 1}}

ServeInit ==
    /\ settings = DefaultSettings
    /\ PipelineStart(ServeRequests)
    /\ GuardIdle
    /\ KeysIdle
    /\ MemoIdle
    /\ AdaptersIdle

ServeNext ==
    \/ \E r \in ServeRequests : AllIdle /\ FibServe(Caller, r)
    \/ \E p \in Procs : FibSave(p)
    \/ \E p \in Procs : Return(p)

ServeSpec == ServeInit /\ [][ServeNext]_vars

\* one request through its endpoint, on an empty cache
HttpRequests ==
    {PowerRequest(PyInt(2), 10), PowerRequest(PyInt(1001), 51),
     PowerRequest(PyInt(150), 25), PowerRequest(PyInt(15), 51),
     FactorialRequest(5), FactorialRequest(171), FactorialRequest(5001),
     FibonacciRequest(10), FibonacciRequest(10001)}

HttpInit ==
    /\ settings = DefaultSettings
    /\ PipelineStart(HttpRequests)
    /\ GuardIdle
    /\ KeysIdle
    /\ MemoIdle
    /\ AdaptersIdle

HttpNext ==
    \/ \E r \in HttpRequests : invocations = 0 /\ AllIdle /\ Begin(Caller, r)
    \/ \E r \in HttpRequests : invocations = 0 /\ AllIdle /\ FibBegin(Caller, r)
    \/ \E p \in Procs : CacheGet(p)
    \/ \E p \in Procs : CacheSet(p)
    \/ \E p \in Procs : SendEvent(p)
    \/ \E p \in Procs : SaveOperation(p)
    \/ \E p \in Procs : FibSave(p)
    \/ \E p \in Procs : ErrorEvent(p)
    \/ \E p \in Procs : Respond(p)

HttpSpec == HttpInit /\ [][HttpNext]_vars

\* the services with ports that may raise into them
RaiseRequests ==
    {PowerRequest(PyInt(4), 2), PowerRequest(PyInt(15), 1001),
     FactorialRequest(5)}

RaiseInit ==
    /\ settings = DefaultSettings
    /\ PipelineStart(RaiseRequests)
    /\ GuardIdle
    /\ KeysIdle
    /\ MemoIdle
    /\ AdaptersIdle

RaiseNext ==
    \/ \E r \in RaiseRequests : AllIdle /\ Begin(Caller, r)
    \/ \E p \in Procs : CacheGetRaises(p)
    \/ \E p \in Procs : CacheSetRaises(p)
    \/ \E p \in Procs : SendEventRaises(p)
    \/ \E p \in Procs : ErrorEventRaises(p)
    \/ \E p \in Procs : CacheGet(p)
    \/ \E p \in Procs : CacheSet(p)
    \/ \E p \in Procs : SendEvent(p)
    \/ \E p \in Procs : SaveOperation(p)
    \/ \E p \in Procs : ErrorEvent(p)
    \/ \E p \in Procs : Return(p)

RaiseSpec == RaiseInit /\ [][RaiseNext]_vars

\* ------------------------------------------------------------------------
\* A RedisCache object called on its own (cache.py 19-124); cache is the
\* store of the Redis server behind it
\* ------------------------------------------------------------------------
StoredRequests == {PowerRequest(PyInt(2), 10), FactorialRequest(5)}

StoredValues == {PyInt(1024), PyInt(120)}

\* the call just made, for redisCache.last
CallOf(op, held, clientError, outcome) ==
    [op |-> op, held |-> held, clientError |-> clientError,
     raised |-> outcome.raised, value |-> outcome.value]

othersUnchangedByCache ==
    <<settings, log, events, operation_count, operation_duration, inv,
      invocations, kernelCalls, cacheReliable, functionVars, producer, repo, app>>

\* connect (cache.py 22-45): without redis_enabled nothing is done;
\* from_url or the ping may raise, and then _redis is None
RcConnect ==
    /\ \E clientError \in BOOLEAN :
         redisCache' =
            IF ~redisCache.enabled
            THEN [redisCache EXCEPT
                    !.last = CallOf("connect", redisCache.held, FALSE, Returned(None))]
            ELSE [redisCache EXCEPT
                    !.held = ~clientError,
                    !.closed = FALSE,
                    !.last = CallOf("connect", redisCache.held, clientError,
                                    Returned(None))]
    /\ UNCHANGED cache
    /\ UNCHANGED othersUnchangedByCache

\* disconnect (cache.py 47-51): aclose() on the client held, which stays in
\* _redis; an exception of aclose() is not handled
RcDisconnect ==
    /\ \E clientError \in BOOLEAN :
         redisCache' =
            IF ~redisCache.held
            THEN [redisCache EXCEPT
                    !.last = CallOf("disconnect", FALSE, FALSE, Returned(None))]
            ELSE [redisCache EXCEPT
                    !.closed = TRUE,
                    !.last = CallOf("disconnect", TRUE, clientError,
                                    IF clientError THEN Raises ELSE Returned(None))]
    /\ UNCHANGED cache
    /\ UNCHANGED othersUnchangedByCache

RcGet(key) ==
    /\ \E fault \in BOOLEAN :
         LET clientError == redisCache.held /\ fault
             outcome == RedisCacheGet(redisCache.held, cache, key, clientError)
         IN  redisCache' = [redisCache EXCEPT
                 !.last = CallOf("get", redisCache.held, clientError, outcome)]
    /\ UNCHANGED cache
    /\ UNCHANGED othersUnchangedByCache

RcSet(key, value) ==
    /\ \E fault \in BOOLEAN :
         LET clientError == redisCache.held /\ fault
             outcome == RedisCacheSet(redisCache.held, cache, key, value, clientError)
         IN  /\ redisCache' = [redisCache EXCEPT
                  !.last = CallOf("set", redisCache.held, clientError, outcome)]
             /\ cache' = outcome.store
    /\ UNCHANGED othersUnchangedByCache

RcDelete(key) ==
    /\ \E fault \in BOOLEAN :
         LET clientError == redisCache.held /\ fault
             outcome == RedisCacheDelete(redisCache.held, cache, key, clientError)
         IN  /\ redisCache' = [redisCache EXCEPT
                  !.last = CallOf("delete", redisCache.held, clientError, outcome)]
             /\ cache' = outcome.store
    /\ UNCHANGED othersUnchangedByCache

RcExists(key) ==
    /\ \E fault \in BOOLEAN :
         LET clientError == redisCache.held /\ fault
             outcome == RedisCacheExists(redisCache.held, cache, key, clientError)
         IN  redisCache' = [redisCache EXCEPT
                 !.last = CallOf("exists", redisCache.held, clientError, outcome)]
    /\ UNCHANGED cache
    /\ UNCHANGED othersUnchangedByCache

CacheInit ==
    /\ settings = DefaultSettings
    /\ PipelineStart(StoredRequests)
    /\ GuardIdle
    /\ KeysIdle
    /\ MemoIdle
    /\ \E enabled \in BOOLEAN : redisCache = NewRedisCache(enabled)
    /\ producer = NewKafkaProducer(TRUE)
    /\ repo = NewRepository
    /\ app = NewApp

CacheNext ==
    \/ RcConnect
    \/ RcDisconnect
    \/ \E r \in StoredRequests : RcGet(RequestKey(r))
    \/ \E r \in StoredRequests, v \in StoredValues : RcSet(RequestKey(r), v)
    \/ \E r \in StoredRequests : RcDelete(RequestKey(r))
    \/ \E r \in StoredRequests : RcExists(RequestKey(r))

CacheSpec == CacheInit /\ [][CacheNext]_vars

\* ------------------------------------------------------------------------
\* A KafkaProducer object called on its own (messaging.py 14-149)
\* ------------------------------------------------------------------------
\* how building the event and send_and_wait may end: normally, with a
\* KafkaError, or with another exception
SendErrors == {"none", "KafkaError", "Exception"}

SendOperationEvent_OnlyKafkaError(held, error) ==
    IF ~held THEN Returned(FALSE)
    ELSE IF error = "KafkaError" THEN Returned(FALSE)
    ELSE IF error = "Exception" THEN Raises
    ELSE Returned(TRUE)

\* KafkaProducer.send_operation_event (messaging.py 50-102)
SendOperationEvent(held, error) ==
    IF ~held THEN Returned(FALSE)
    ELSE IF error = "KafkaError" THEN Returned(FALSE)
    ELSE IF error = "Exception" THEN Returned(FALSE)
    ELSE Returned(TRUE)

\* KafkaProducer.send_api_event (messaging.py 104-149)
SendApiEvent(held, error) ==
    IF ~held THEN Returned(FALSE)
    ELSE IF error # "none" THEN Returned(FALSE)
    ELSE Returned(TRUE)

\* the topic is followed up to this many messages
MaxTopic == 3

othersUnchangedByProducer ==
    <<settings, cache, log, events, operation_count, operation_duration, inv,
      invocations, kernelCalls, cacheReliable, functionVars, redisCache, repo, app>>

\* start (messaging.py 20-43): without kafka_enabled nothing is done; the
\* constructor or start() may raise, and then _producer is None
KpStart ==
    /\ \E clientError \in BOOLEAN :
         producer' =
            IF ~producer.enabled
            THEN [producer EXCEPT
                    !.last = CallOf("start", producer.held, FALSE, Returned(None))]
            ELSE [producer EXCEPT
                    !.held = ~clientError,
                    !.stopped = FALSE,
                    !.last = CallOf("start", producer.held, clientError,
                                    Returned(None))]
    /\ UNCHANGED othersUnchangedByProducer

\* stop (messaging.py 45-48): stop() on the producer held, which stays in
\* _producer; an exception of stop() is not handled
KpStop ==
    /\ \E clientError \in BOOLEAN :
         producer' =
            IF ~producer.held
            THEN [producer EXCEPT
                    !.last = CallOf("stop", FALSE, FALSE, Returned(None))]
            ELSE [producer EXCEPT
                    !.stopped = TRUE,
                    !.last = CallOf("stop", TRUE, clientError,
                                    IF clientError THEN Raises ELSE Returned(None))]
    /\ UNCHANGED othersUnchangedByProducer

\* the error of this send: a stopped producer refuses every send
ErrorOfSend(error) ==
    IF ~producer.held THEN "none"
    ELSE IF producer.stopped /\ error = "none" THEN "KafkaError"
    ELSE error

\* the topic after a send that returned delivered
TopicAfter(delivered, event_type) ==
    IF delivered THEN Append(producer.topic, event_type) ELSE producer.topic

KpSendOperationEvent ==
    /\ Len(producer.topic) < MaxTopic
    /\ \E error \in SendErrors :
         LET e == ErrorOfSend(error)
             outcome == SendOperationEvent(producer.held, e)
         IN  producer' = [producer EXCEPT
                 !.topic = TopicAfter(producer.held /\ e = "none", "math_operation"),
                 !.last = CallOf("send_operation_event", producer.held,
                                 e # "none", outcome)]
    /\ UNCHANGED othersUnchangedByProducer

KpSendApiEvent ==
    /\ Len(producer.topic) < MaxTopic
    /\ \E error \in SendErrors :
         LET e == ErrorOfSend(error)
             outcome == SendApiEvent(producer.held, e)
         IN  producer' = [producer EXCEPT
                 !.topic = TopicAfter(producer.held /\ e = "none", "api_request"),
                 !.last = CallOf("send_api_event", producer.held,
                                 e # "none", outcome)]
    /\ UNCHANGED othersUnchangedByProducer

ProducerInit ==
    /\ settings = DefaultSettings
    /\ PipelineStart(Requests)
    /\ GuardIdle
    /\ KeysIdle
    /\ MemoIdle
    /\ redisCache = NewRedisCache(TRUE)
    /\ \E enabled \in BOOLEAN : producer = NewKafkaProducer(enabled)
    /\ repo = NewRepository
    /\ app = NewApp

ProducerNext ==
    \/ KpStart
    \/ KpStop
    \/ KpSendOperationEvent
    \/ KpSendApiEvent

ProducerSpec == ProducerInit /\ [][ProducerNext]_vars

\* ------------------------------------------------------------------------
\* _calculate_fibonacci called again and again on one service instance
\* ------------------------------------------------------------------------
FibMaxN == 30

FibCall(n) ==
    /\ LET k == calculate_fibonacci_kernel(memo, n)
       IN  /\ memo' = k.memo
           /\ fibReturn' = [n |-> n, value |-> k.value]
           /\ fibPasses' = FibonacciPasses(memo, n)
    /\ UNCHANGED <<settings, gReq, gVerdict, kArgs, kKeys, redisCache, producer,
                   repo, app>>
    /\ UNCHANGED pipelineVars

MemoNext == \E n \in 0..FibMaxN : FibCall(n)

MemoSpec == Init /\ [][MemoNext]_vars

\* ------------------------------------------------------------------------
\* Properties
\* ------------------------------------------------------------------------
Done(p) == inv[p].pc = "done"

CacheAside(r) == r.op \in {"power", "factorial"}

\* the results the documentation gives for the valid requests of the model
ExpectedResult(r) ==
    CASE r = PowerRequest(PyInt(2), 10) -> PyInt(1024)
      [] r = PowerRequest(PyInt(10), 50) -> [m |-> 1, x |-> 50]
      [] r = FactorialRequest(5) -> PyInt(120)
      [] r = FibonacciRequest(10) -> PyInt(55)
      [] OTHER -> NoneInt

ValidRequest(r) == ExpectedResult(r) # NoneInt

HasLogEntry(r) ==
    \E k \in 1..Len(log) :
        /\ log[k].operation_type = r.op
        /\ log[k].parameters = RequestParams(r)

LogCount(r) ==
    Cardinality({k \in 1..Len(log) :
        /\ log[k].operation_type = r.op
        /\ log[k].parameters = RequestParams(r)})

\* C1: whenever calculate_power or calculate_factorial has returned a result
\* to its caller, computed or served from the cache, the log holds an entry
\* with that operation type and those parameters.
C1_SuccessImpliesDurableRecord ==
    \A p \in Procs :
        (Done(p) /\ inv[p].outcome = "success" /\ CacheAside(inv[p].req))
            => HasLogEntry(inv[p].req)

\* C2: an invocation whose save_operation failed returns a failure to the
\* caller and never the computed result, for each of the three operations.
C2_SaveFailureIsReturned ==
    \A p \in Procs :
        (Done(p) /\ "save" \in inv[p].faults)
            => /\ inv[p].outcome = "failure"
               /\ inv[p].result = NoneInt
               /\ inv[p].error = MsgSaveFailed

C2_Witness ==
    \E p \in Procs :
        /\ Done(p)
        /\ "save" \in inv[p].faults
        /\ inv[p].req = PowerRequest(PyInt(2), 10)
        /\ inv[p].calls.kernel = 1

\* C3: an invocation for a valid request whose cache calls or whose event
\* publish failed, and whose save_operation did not, returns success with
\* the correct result after exactly one save_operation.
C3_AdvisoryFailuresTolerated ==
    \A p \in Procs :
        (/\ Done(p)
         /\ ValidRequest(inv[p].req)
         /\ "save" \notin inv[p].faults
         /\ \/ {"get", "set"} \subseteq inv[p].faults
            \/ "event" \in inv[p].faults)
            => /\ inv[p].outcome = "success"
               /\ inv[p].result = ExpectedResult(inv[p].req)
               /\ inv[p].calls.save = 1
               /\ HasLogEntry(inv[p].req)

C3_Witness ==
    \E p \in Procs :
        /\ Done(p)
        /\ inv[p].req = PowerRequest(PyInt(10), 50)
        /\ inv[p].faults = {"get", "set", "event"}
        /\ inv[p].outcome = "success"

\* C4 as stated: while the cache has not failed and nothing has expired, for
\* each cache key the kernel is invoked at most once and the log receives
\* at most one entry.
C4_KernelInvokedAtMostOnce ==
    cacheReliable =>
        \A r \in Requests :
            CacheAside(r) => (kernelCalls[r] <= 1 /\ LogCount(r) <= 1)

KernelAccepts(r) == r.op = "factorial" => r.n <= MaxFactorialKernelN

\* C4 amended: while the cache has not failed and nothing has expired, for
\* each cache key whose request the kernel accepts the kernel is invoked at
\* most once, the log receives at most one entry for every key, and every
\* request after the computation is answered from the cache with the value
\* stored there, the computed result.
C4_KernelCompletesAtMostOnce ==
    cacheReliable =>
        /\ \A r \in Requests :
              CacheAside(r) =>
                /\ KernelAccepts(r) => kernelCalls[r] <= 1
                /\ LogCount(r) <= 1
        /\ \A p \in Procs :
              (/\ Done(p)
               /\ CacheAside(inv[p].req)
               /\ inv[p].calls.kernel = 0
               /\ kernelCalls[inv[p].req] >= 1
               /\ KernelAccepts(inv[p].req))
                  => /\ inv[p].hit
                     /\ inv[p].outcome = "success"
                     /\ RequestKey(inv[p].req) \in DOMAIN cache
                     /\ inv[p].result = PickleLoads(cache[RequestKey(inv[p].req)])
                     /\ inv[p].result = ExpectedResult(inv[p].req)

C4_Witness ==
    \E p \in Procs :
        /\ cacheReliable
        /\ Done(p)
        /\ inv[p].hit
        /\ inv[p].req = FactorialRequest(5)
        /\ kernelCalls[inv[p].req] = 1
        /\ invocations = 2

\* the step of calculate_power or calculate_factorial that hits the cache
\* changes nothing but the return value: the step that finds the
\* value leaves the cache, the log, the events and the metrics as they
\* were, and the invocation ends having run no check, no kernel, no cache
\* write, no event publish and no save.
C5_HitStepFrame ==
    \A p \in Procs :
        (inv[p].pc = "cache_get" /\ inv'[p].hit)
            => /\ inv'[p].pc = "done"
               /\ inv'[p].outcome = "success"
               /\ inv'[p].stage = "none"
               /\ inv'[p].calls = [NoCalls EXCEPT !.get = 1]
               /\ UNCHANGED <<cache, log, events, operation_count,
                              operation_duration, kernelCalls>>

\* C5: every step in which an invocation finds its value in the cache
\* leaves everything but the invocation's return value unchanged.
C5_CacheHitChangesNothing == [][C5_HitStepFrame]_vars

C5_Witness ==
    \E p \in Procs :
        /\ Done(p)
        /\ inv[p].hit
        /\ inv[p].req = PowerRequest(PyInt(2), 10)
        /\ Len(log) = 1
        /\ operation_count[<<"power", "success">>] = 1

\* C6: a fibonacci request queries the Cache Port exactly once, and a value
\* held there is returned without a cache write, a kernel run or a save.
C6_FibonacciQueriesCacheOnce ==
    \A p \in Procs :
        (Done(p) /\ inv[p].req.op = "fibonacci")
            => /\ inv[p].calls.get = 1
               /\ inv[p].hit => (inv[p].calls.kernel = 0 /\ inv[p].calls.save = 0)

\* the request the checks were given, in plain integer terms
GuardAnswered == gVerdict # NoVerdict

BaseAbove(c) == NumGT(gReq.base, PyInt(c))

WithinCeilings ==
    /\ ~NumGT(gReq.base, settings.max_power_base)
    /\ gReq.exponent <= settings.max_power_exponent

Rule1 == gReq.exponent > 50

Rule2 == BaseAbove(100) /\ gReq.exponent > 20

Rule3 == BaseAbove(10) /\ gReq.exponent > 100

\* exponent * log10(base) > 1000 for the bases of the model and an
\* exponent of at most 50: only a power of ten 10^x with exponent * x > 1000
Rule4 ==
    /\ gReq.exponent <= 50
    /\ gReq.base.m = 1
    /\ gReq.base.x * gReq.exponent > 1000

\* C7 as stated: the checks are evaluated in the order exponent > 50,
\* base > 100 and exponent > 20, base > 10 and exponent > 100, estimated
\* digits > 1000, and a request is rejected with the message of the first
\* of rules 1-3 that fails, by the estimate when only that fails, and
\* accepted when none does.
C7_MessageInDocumentedOrder ==
    (GuardAnswered /\ WithinCeilings) =>
        IF Rule1 THEN gVerdict.msg = MsgExponentTooLarge
        ELSE IF Rule2 THEN gVerdict.msg = MsgLargeBaseLargeExponent
        ELSE IF Rule3 THEN gVerdict.msg = MsgBase10Exponent100
        ELSE IF Rule4 THEN gVerdict.stage = "guard"
        ELSE gVerdict.msg = None

\* C7 amended: the checks are evaluated in the order base > 100 and
\* exponent > 20, base > 10 and exponent > 100, exponent > 50, estimated
\* digits > 1000; a request is rejected with the message of the first of
\* the three rules that fails in this order, by the estimate (with none of
\* the three rules' messages) when only that fails, and accepted when none
\* does.
C7_MessageInCodeOrder ==
    (GuardAnswered /\ WithinCeilings) =>
        /\ gVerdict.msg = MsgLargeBaseLargeExponent <=> Rule2
        /\ gVerdict.msg = MsgBase10Exponent100 <=> (~Rule2 /\ Rule3)
        /\ gVerdict.msg = MsgExponentTooLarge <=> (~Rule2 /\ ~Rule3 /\ Rule1)
        /\ gVerdict.msg = None <=> (~Rule2 /\ ~Rule3 /\ ~Rule1 /\ ~Rule4)
        /\ gVerdict.stage = (IF gVerdict.msg = None THEN "ok" ELSE "guard")

C7_Witness ==
    /\ GuardAnswered
    /\ gReq = PowerRequest(PyInt(150), 51)
    /\ gVerdict.msg = MsgLargeBaseLargeExponent

\* C8 as stated: no power request is ever rejected with the
\* "base > 10 with exponent > 100" message.
C8_Rule3NeverFires == gVerdict.msg # MsgBase10Exponent100

\* C8 amended: rule 3 is tested before the exponent > 50 rule and fires: a
\* request is rejected with its message exactly when it is within the
\* ceilings, 10 < base <= 100 and exponent > 100.
C8_Rule3FiresExactly ==
    GuardAnswered =>
        (gVerdict.msg = MsgBase10Exponent100
            <=> /\ WithinCeilings
                /\ BaseAbove(10)
                /\ ~BaseAbove(100)
                /\ gReq.exponent > 100)

C8_Witness ==
    /\ gReq = PowerRequest(PyInt(15), 101)
    /\ gVerdict = [stage |-> "guard", msg |-> MsgBase10Exponent100]

\* the examples the documentation gives for the overflow guard
C9_Rejected == {<<2, 51>>, <<10, 51>>, <<150, 25>>, <<101, 21>>}

C9_Accepted == {<<2, 10>>, <<10, 50>>}

\* C9: with the default ceilings a request with 0 <= base <= 1000 and
\* 0 <= exponent <= 1000 is rejected by the overflow guard if and only if
\* exponent > 50 or (base > 100 and exponent > 20); (2, 51), (10, 51),
\* (150, 25) and (101, 21) are rejected, (2, 10) and (10, 50) accepted.
C9_GuardRejectsExactly ==
    (/\ GuardAnswered
     /\ settings = DefaultSettings
     /\ gReq.base.x = 0
     /\ gReq.base.m \in 0..1000
     /\ gReq.exponent \in 0..1000)
        => /\ gVerdict.stage \in {"guard", "ok"}
           /\ gVerdict.stage = "guard"
                <=> \/ gReq.exponent > 50
                    \/ (gReq.base.m > 100 /\ gReq.exponent > 20)
           /\ <<gReq.base.m, gReq.exponent>> \in C9_Rejected => gVerdict.stage = "guard"
           /\ <<gReq.base.m, gReq.exponent>> \in C9_Accepted => gVerdict.stage = "ok"

C9_Witness ==
    /\ settings = DefaultSettings
    /\ gReq = PowerRequest(PyInt(10), 50)
    /\ gVerdict = [stage |-> "ok", msg |-> None]

\* the messages of the ceilings that request r exceeds under settings s
ExceededCeilingMessages(s, r) ==
    {msg \in {MsgBaseCeiling, MsgExponentCeiling, MsgFactorialCeiling, MsgFibonacciCeiling} :
        \/ msg = MsgBaseCeiling /\ r.op = "power" /\ NumGT(r.base, s.max_power_base)
        \/ msg = MsgExponentCeiling /\ r.op = "power" /\ r.exponent > s.max_power_exponent
        \/ msg = MsgFactorialCeiling /\ r.op = "factorial" /\ r.n > s.max_factorial_n
        \/ msg = MsgFibonacciCeiling /\ r.op = "fibonacci" /\ r.n > s.max_fibonacci_n}

\* C10: a request that misses the cache and exceeds a configured ceiling is
\* rejected with that ceiling's message before the overflow guard and the
\* kernel are evaluated, with no cache write and no save.
C10_CeilingShortCircuits ==
    \A p \in Procs :
        (/\ Done(p)
         /\ ~inv[p].hit
         /\ ExceededCeilingMessages(settings, inv[p].req) # {})
            => /\ inv[p].outcome = "failure"
               /\ inv[p].error \in ExceededCeilingMessages(settings, inv[p].req)
               /\ inv[p].stage = "ceiling"
               /\ inv[p].calls.kernel = 0
               /\ inv[p].calls.set = 0
               /\ inv[p].calls.save = 0
               /\ ~HasLogEntry(inv[p].req)
               /\ CacheAside(inv[p].req) => RequestKey(inv[p].req) \notin DOMAIN cache

C10_Witness ==
    \E p \in Procs :
        /\ Done(p)
        /\ settings = DefaultSettings
        /\ inv[p].req = PowerRequest(PyInt(1001), 51)
        /\ inv[p].error = MsgBaseCeiling
        /\ inv[p].calls.get = 1

\* C11: a power request within the ceilings that passes guard rules 1-3 and
\* whose estimate exponent * log10(base) exceeds 1000 is rejected with the
\* message that names the estimated digit count.
C11_EstimateMessageNamesDigits ==
    (GuardAnswered /\ WithinCeilings /\ ~Rule1 /\ ~Rule2 /\ ~Rule3 /\ Rule4)
        => gVerdict = [stage |-> "guard", msg |-> MsgEstimatedDigits]

\* the number of decimal digits of a Python int
DecimalDigits(a) ==
    IF HasLimbs(a)
    THEN (Len(a.limbs) - 1) * LimbDigits + NumDigits(a.limbs[Len(a.limbs)])
    ELSE NumDigits(IF a.m < 0 THEN 0 - a.m ELSE a.m) + a.x

\* C12: the kernel base**exponent is evaluated only if its result has at
\* most 1000 decimal digits: an invocation whose kernel ran holds a result
\* of at most 1000 digits.
C12_KernelResultAtMost1000Digits ==
    \A p \in Procs :
        (/\ inv[p].req.op = "power"
         /\ inv[p].calls.kernel = 1
         /\ inv[p].result # NoneInt)
            => DecimalDigits(inv[p].result) <= MaxEstimatedDigits

HasNegativeField(r) ==
    IF r.op = "power" THEN r.exponent < 0 \/ NumGT(PyInt(0), r.base)
    ELSE r.n < 0

NoEffect(p) ==
    /\ inv[p].outcome = "failure"
    /\ inv[p].calls.kernel = 0
    /\ inv[p].calls.set = 0
    /\ inv[p].calls.event = 0
    /\ inv[p].calls.save = 0
    /\ kernelCalls[inv[p].req] = 0
    /\ ~HasLogEntry(inv[p].req)

\* C13 as stated: a request with a negative exponent, a negative n or a
\* negative base ends as a failure with no kernel call, no cache write, no
\* operation event and no save.
C13_NegativeFieldsRejected ==
    \A p \in Procs : (Done(p) /\ HasNegativeField(inv[p].req)) => NoEffect(p)

\* C13 amended: a request with a negative exponent or a negative n ends as
\* a failure with no kernel call, no cache write, no operation event and no
\* save; a negative base is admitted, and every request that reaches a
\* kernel has a non-negative exponent or n.
C13_NegativeExponentOrNRejected ==
    \A p \in Procs :
        /\ (/\ Done(p)
            /\ IF inv[p].req.op = "power" THEN inv[p].req.exponent < 0
                                           ELSE inv[p].req.n < 0)
               => NoEffect(p)
        /\ inv[p].calls.kernel > 0 =>
               IF inv[p].req.op = "power" THEN inv[p].req.exponent >= 0
                                          ELSE inv[p].req.n >= 0

C13_Witness ==
    \E p \in Procs :
        /\ Done(p)
        /\ inv[p].req = FibonacciRequest(-1)
        /\ inv[p].error = MsgFibonacciNegative
        /\ \E r \in EdgeRequests : r.op = "power" /\ r.exponent < 0 /\ kernelCalls[r] = 0
        /\ kernelCalls[PowerRequest(PyInt(-2), 3)] = 1
        /\ invocations = 2

RejectionStages == {"ceiling", "guard", "kernel"}

\* C14: every entry of the log belongs to a request that passes all
\* validation and carries its kernel's result, and no invocation rejected
\* by a ceiling, the guard or the kernel calls save_operation.
C14_NoSaveForRejected ==
    /\ \A k \in 1..Len(log) :
          \E r \in Requests :
              /\ ValidRequest(r)
              /\ log[k] = [operation_type |-> r.op, parameters |-> RequestParams(r),
                           result |-> str(ExpectedResult(r))]
    /\ \A p \in Procs :
          inv[p].stage \in RejectionStages
              => (inv[p].calls.save = 0 /\ inv[p].outcome # "success")

C14_Witness ==
    \E p \in Procs :
        /\ Done(p)
        /\ inv[p].req = FactorialRequest(171)
        /\ inv[p].stage = "kernel"
        /\ inv[p].calls.kernel = 1
        /\ Len(log) = 1

\* the events handed to the Event Port for request r with this outcome
EventsOf(r, success) ==
    {k \in 1..Len(events) :
        /\ events[k].operation_type = r.op
        /\ events[k].parameters = RequestParams(r)
        /\ events[k].success = success}

\* C15: for each of the three operations, an invocation rejected by a
\* ceiling, the guard or the kernel publishes exactly one operation event,
\* with success = false and the rejection message as its error, increments
\* the error counter once and returns the error to the caller.
C15_RejectionPublishedOnce ==
    \A p \in Procs :
        (Done(p) /\ inv[p].stage \in RejectionStages)
            => /\ inv[p].outcome = "failure"
               /\ inv[p].error # None
               /\ inv[p].calls.event = 1
               /\ \E k \in EventsOf(inv[p].req, FALSE) :
                      events[k].error = inv[p].error /\ events[k].result = NoneStr
               /\ inv[p].calls.error_count = 1
               /\ operation_count[<<inv[p].req.op, "error">>] >= 1

\* C16: no invocation hands more than one operation event to the Event
\* Port, whatever port fails during it.
C16_AtMostOneEventPerInvocation ==
    \A p \in Procs : inv[p].calls.event <= 1

\* the same operation type and the same value for every parameter name
SameCall(a, b) ==
    /\ a.operation_type = b.operation_type
    /\ {a.params[i] : i \in DOMAIN a.params} = {b.params[i] : i \in DOMAIN b.params}

\* C17: two calls of cache_key_for_operation return the same key if and
\* only if they have the same operation type and the same parameter values,
\* in whatever order the parameters are passed.
C17_KeyDeterminedByTypeAndValues ==
    kKeys # <<>> => (kKeys[1] = kKeys[2] <=> SameCall(kArgs[1], kArgs[2]))

C17_Witness ==
    /\ kKeys # <<>>
    /\ kArgs[1] = [operation_type |-> StrPower,
                   params |-> <<(<<StrExponent, PyInt(3)>>), (<<StrBase, PyInt(2)>>)>>]
    /\ kArgs[2] = [operation_type |-> StrPower,
                   params |-> <<(<<StrBase, PyInt(2)>>), (<<StrExponent, PyInt(3)>>)>>]
    /\ kKeys[1] = kKeys[2]
    /\ kKeys[1] = StrMath \o <<":">> \o StrPower \o <<":">> \o StrBase
                      \o <<"=", "2", "&">> \o StrExponent \o <<"=", "3">>

\* C18: the value stored under a request's cache key is the kernel's
\* result for that request, every key of the cache is the key of a request
\* served, and every result returned by calculate_power or
\* calculate_factorial, computed or cache hit, is base**exponent or n!.
C18_CachedValueIsKernelResult ==
    /\ \A r \in Requests :
          (CacheAside(r) /\ RequestKey(r) \in DOMAIN cache)
              => /\ ValidRequest(r)
                 /\ PickleLoads(cache[RequestKey(r)]) = ExpectedResult(r)
    /\ \A k \in DOMAIN cache : \E r \in Requests : CacheAside(r) /\ RequestKey(r) = k
    /\ \A p \in Procs :
          (Done(p) /\ inv[p].outcome = "success" /\ CacheAside(inv[p].req))
              => inv[p].result = ExpectedResult(inv[p].req)

C18_Witness ==
    \E p \in Procs :
        /\ Done(p)
        /\ inv[p].hit
        /\ inv[p].req = PowerRequest(PyInt(10), 50)
        /\ inv[p].result = Pow10(50)
        /\ kernelCalls[inv[p].req] = 1

\* n! by its recurrence, 0! = 1 and n! = n * (n - 1)!: the table of 0!, 1!,
\* ..., n! from the table of 0!, ..., k!
RECURSIVE FactorialsUpTo(_, _)
FactorialsUpTo(table, n) ==
    IF Len(table) > n THEN table
    ELSE LET k == Len(table)
         IN  FactorialsUpTo(Append(table, MulLimbs(table[k], k, 1, 0, <<>>)), n)

FactorialsLow == FactorialsUpTo(<<(<<1>>)>>, 60)

FactorialsMiddle == FactorialsUpTo(FactorialsLow, 120)

FactorialTable == FactorialsUpTo(FactorialsMiddle, 170)

FactorialOf(n) == FactorialTable[n + 1]

\* the values the documentation gives
FactorialExamples == (0 :> 1) @@ (1 :> 1) @@ (5 :> 120) @@ (10 :> 3628800)

\* C19: a factorial request that misses the cache, its save not failing,
\* succeeds if and only if n <= 170 and n <= max_factorial_n, and then
\* returns 1 * 2 * ... * n; every n > 170 is rejected with no cache write
\* and no save, and 170 < n <= max_factorial_n with the message "Number too
\* large for factorial calculation".
C19_FactorialSucceedsIffSmall ==
    \A p \in Procs :
        (/\ Done(p)
         /\ inv[p].req.op = "factorial"
         /\ ~inv[p].hit
         /\ "save" \notin inv[p].faults)
            => LET n == inv[p].req.n
               IN  /\ inv[p].outcome = "success"
                        <=> (n <= 170 /\ n <= settings.max_factorial_n)
                   /\ inv[p].outcome = "success"
                        => /\ inv[p].result = FromLimbs(FactorialOf(n))
                           /\ n \in DOMAIN FactorialExamples
                                => inv[p].result = PyInt(FactorialExamples[n])
                   /\ n > 170
                        => /\ inv[p].outcome = "failure"
                           /\ inv[p].stage \in {"ceiling", "kernel"}
                           /\ inv[p].calls.set = 0
                           /\ inv[p].calls.save = 0
                           /\ cache = <<>>
                           /\ log = <<>>
                   /\ (n > 170 /\ n <= settings.max_factorial_n)
                        => inv[p].error = MsgFactorialTooLarge

C19_Witness ==
    \E p \in Procs :
        /\ Done(p)
        /\ settings = DefaultSettings
        /\ inv[p].req = FactorialRequest(170)
        /\ inv[p].outcome = "success"
        /\ HasLimbs(inv[p].result)
        /\ Len(log) = 1

\* the Fibonacci numbers by their recurrence, fib(0) = 0, fib(1) = 1 and
\* fib(n) = fib(n - 1) + fib(n - 2): the table of fib(0), ..., fib(n) from the
\* table of fib(0), ..., fib(k), k >= 1
RECURSIVE FibsUpTo(_, _)
FibsUpTo(table, n) ==
    IF Len(table) > n THEN table
    ELSE LET k == Len(table)
         IN  FibsUpTo(Append(table, table[k] + table[k - 1]), n)

FibTable == FibsUpTo(<<0, 1>>, FibMaxN)

fib(n) == FibTable[n + 1]

\* the values the documentation gives
FibonacciExamples == (0 :> 0) @@ (1 :> 1) @@ (10 :> 55) @@ (15 :> 610)

\* C20: after any sequence of _calculate_fibonacci calls on one service
\* instance every memo entry i -> v has v = fib(i), and the last call
\* returned fib(n) of its argument, whatever was requested before.
C20_MemoHoldsFibonacci ==
    /\ \A i \in DOMAIN memo : memo[i] = fib(i)
    /\ fibReturn # NoReturn
         => /\ fibReturn.value = fib(fibReturn.n)
            /\ fibReturn.n \in DOMAIN FibonacciExamples
                 => fibReturn.value = FibonacciExamples[fibReturn.n]

\* fibonacci(10) answered from a memo that an earlier call for a larger
\* index filled
C20_Witness ==
    /\ fibReturn = [n |-> 10, value |-> 55]
    /\ FibMaxN \in DOMAIN memo
    /\ memo[15] = 610

\* mag multiplied by itself: the table of mag^0, mag^1, ..., mag^e in limbs,
\* from the table of mag^0, ..., mag^k
RECURSIVE PowersUpTo(_, _, _)
PowersUpTo(table, mag, e) ==
    IF Len(table) > e THEN table
    ELSE PowersUpTo(Append(table, MulLimbs(table[Len(table)], mag, 1, 0, <<>>)),
                    mag, e)

Magnitude(v) == IF v < 0 THEN 0 - v ELSE v

PowerTable ==
    [mag \in {Magnitude(b.m) : b \in PowerBases} |->
        PowersUpTo(<<(<<1>>)>>, mag, 51)]

\* whether the limbs from i on are those of a power of ten shifted by whole
\* limbs: zeros below the top limb, a power of ten on top
RECURSIVE IsPow10Limbs(_, _)
IsPow10Limbs(limbs, i) ==
    IF i = Len(limbs) THEN IsPow10Int(limbs[i])
    ELSE limbs[i] = 0 /\ IsPow10Limbs(limbs, i + 1)

\* the Python int of this sign and magnitude, in the shape the model holds
\* it in
SignedInt(negative, limbs) ==
    LET k == (Len(limbs) - 1) * LimbDigits + NumDigits(limbs[Len(limbs)]) - 1
    IN  IF IsPow10Limbs(limbs, 1) /\ k >= HugeFrom
        THEN IF negative THEN NegPow10(k) ELSE Pow10(k)
        ELSE SignedFromLimbs(negative, limbs)

\* base multiplied by itself exponent times, 1 when exponent = 0
RepeatedProduct(base, exponent) ==
    SignedInt(base.m < 0 /\ exponent % 2 = 1,
              PowerTable[Magnitude(base.m)][exponent + 1])

\* C21: every power invocation that returns a result returns base multiplied
\* by itself exponent times (1 when exponent = 0, 1024 for power(2, 10)), in
\* a result object that echoes the request's base and exponent.
C21_PowerIsRepeatedProduct ==
    \A p \in Procs :
        (/\ Done(p)
         /\ inv[p].req.op = "power"
         /\ inv[p].outcome = "success")
            => LET r == inv[p].req
               IN  /\ inv[p].returned =
                        [base |-> r.base, exponent |-> r.exponent,
                         result |-> RepeatedProduct(r.base, r.exponent)]
                   /\ r.exponent = 0 => inv[p].returned.result = PyInt(1)
                   /\ r = PowerRequest(PyInt(2), 10)
                        => inv[p].returned.result = PyInt(1024)

\* power(-7, 21) returned: a negative result of 18 digits
C21_Witness ==
    \E p \in Procs :
        /\ Done(p)
        /\ inv[p].req = PowerRequest(PyInt(-7), 21)
        /\ inv[p].outcome = "success"
        /\ inv[p].returned.base = PyInt(-7)
        /\ HasLimbs(inv[p].returned.result)
        /\ inv[p].returned.result.m = -1
        /\ DecimalDigits(inv[p].returned.result) = 18

\* this step starts serving fibonacci(n) with a request served before it
ServesNextFibonacci(n) ==
    /\ invocations > 0
    /\ inv[Caller].pc = "idle"
    /\ inv'[Caller].pc = "save"
    /\ inv'[Caller].req = FibonacciRequest(n)

\* C22: of two fibonacci requests served one after the other, the second
\* finds in the memo every term the first derived: a request for an n the
\* memo holds runs no pass of the loop, and no term derived so far is lost.
C22_SecondRequestServedFromMemo ==
    [][\A n \in 0..ServeMaxN :
          (ServesNextFibonacci(n) /\ n \in DOMAIN memo)
              => /\ fibPasses' = 0
                 /\ \A i \in DOMAIN memo : i \in DOMAIN memo']_vars

\* the power requests of RaiseRequests that the checks accept
AcceptedPower(r) ==
    r.op = "power" /\ PowerValidationError(DefaultSettings, r).stage = "ok"

\* C23: a valid power request whose cache.get or cache.set raised into the
\* service, nothing else failing, completes with success, the correct result
\* and exactly one operation event.
C23_SuccessDespiteRaisingCache ==
    \A p \in Procs :
        (/\ Done(p)
         /\ AcceptedPower(inv[p].req)
         /\ inv[p].faults # {}
         /\ inv[p].faults \subseteq {"get_raised", "set_raised"})
            => /\ inv[p].outcome = "success"
               /\ inv[p].returned.result =
                    RepeatedProduct(inv[p].req.base, inv[p].req.exponent)
               /\ inv[p].calls.event = 1

\* C24: a valid power request whose send_operation_event raised into the
\* service, nothing else failing, completes with success and the correct
\* result, the cache read once and written once.
C24_SuccessDespiteRaisingEvent ==
    \A p \in Procs :
        (/\ Done(p)
         /\ AcceptedPower(inv[p].req)
         /\ inv[p].faults = {"event_raised"})
            => /\ inv[p].outcome = "success"
               /\ inv[p].returned.result =
                    RepeatedProduct(inv[p].req.base, inv[p].req.exponent)
               /\ inv[p].calls.get = 1
               /\ inv[p].calls.set = 1

\* C25: in every state of a RedisCache object and whatever the client does,
\* get, set, delete and exists do not raise; without a client get returns
\* None and set, delete and exists return False; a failed connect, and a
\* connect with caching disabled, leave the object without a client.
C25_CacheNeverRaises ==
    LET l == redisCache.last
    IN  /\ l.op \in {"get", "set", "delete", "exists"} => ~l.raised
        /\ (l.op = "get" /\ ~l.held) => l.value = NoneInt
        /\ (l.op \in {"set", "delete", "exists"} /\ ~l.held) => l.value = FALSE
        /\ (l.op = "connect" /\ l.clientError) => ~redisCache.held
        /\ ~redisCache.enabled => ~redisCache.held

\* a get for a stored key on a disconnected object whose client raises:
\* None is returned
C25_Witness ==
    LET l == redisCache.last
    IN  /\ l.op = "get"
        /\ l.held
        /\ l.clientError
        /\ redisCache.closed
        /\ cache # <<>>
        /\ ~l.raised
        /\ l.value = NoneInt

\* C26: send_operation_event and send_api_event do not raise; they return
\* False when no producer was started and when the send failed with any
\* error, and True only when the send completed.
C26_SendNeverRaises ==
    LET l == producer.last
    IN  l.op \in {"send_operation_event", "send_api_event"}
            => /\ ~l.raised
               /\ l.value \in BOOLEAN
               /\ ~l.held => l.value = FALSE
               /\ l.clientError => l.value = FALSE
               /\ l.value = TRUE
                    => /\ l.held
                       /\ ~l.clientError
                       /\ producer.topic # <<>>

\* send_operation_event on a started producer failing with an error that is
\* not a KafkaError, after a message was delivered: False is returned
C26_Witness ==
    LET l == producer.last
    IN  /\ l.op = "send_operation_event"
        /\ l.held
        /\ ~producer.stopped
        /\ l.clientError
        /\ ~l.raised
        /\ l.value = FALSE
        /\ producer.topic = <<"api_request">>

\* the stages at which a request is refused as invalid
ValidationStages == {"construction"} \cup RejectionStages

ConcRequests ==
    {PowerRequest(PyInt(2), 10), FactorialRequest(5)}

ConcInit ==
    /\ settings = DefaultSettings
    /\ PipelineStart(ConcRequests)
    /\ GuardIdle
    /\ KeysIdle
    /\ MemoIdle
    /\ AdaptersIdle

ConcNext ==
    \/ \E p \in Procs, r \in ConcRequests : Begin(p, r)
    \/ \E p \in Procs : CacheGet(p)
    \/ \E p \in Procs : CacheSet(p)
    \/ \E p \in Procs : SendEvent(p)
    \/ \E p \in Procs : SaveOperation(p)
    \/ \E p \in Procs : ErrorEvent(p)

ConcSpec == ConcInit /\ [][ConcNext]_vars

\* the invocation of task p missed the cache and has come back with a result
CompletedMiss(p) ==
    /\ Done(p)
    /\ inv[p].outcome = "success"
    /\ ~inv[p].hit

\* the invocation of task p is past its cache miss and the checks
PastMiss(p) == inv[p].pc \in {"cache_set", "send_event", "save"} \/ CompletedMiss(p)

\* C28: no invocation waits for, or reuses the work of, another invocation
\* for the same key: every invocation that missed the cache has run the
\* kernel itself, and once it has returned it has written the cache once and
\* appended its own entry, so the log holds at least one entry per
\* invocation for the key that missed and has returned.
C28_EveryMissComputesAndAppends ==
    /\ \A p \in Procs : PastMiss(p) => inv[p].calls.kernel = 1
    /\ \A p \in Procs :
          CompletedMiss(p) => /\ inv[p].calls.set = 1
                              /\ inv[p].calls.save = 1
    /\ \A r \in ConcRequests :
          LogCount(r) >= Cardinality({p \in Procs : CompletedMiss(p) /\ inv[p].req = r})

\* both tasks missed the cache for 2**10, both ran the kernel, both wrote the
\* cache and both appended: the log ends with two entries for the key
C28_Witness ==
    /\ \A p \in Procs : CompletedMiss(p) /\ inv[p].req = PowerRequest(PyInt(2), 10)
    /\ \A p \in Procs : inv[p].calls.kernel = 1 /\ inv[p].faults = {}
    /\ kernelCalls[PowerRequest(PyInt(2), 10)] = 2
    /\ RequestKey(PowerRequest(PyInt(2), 10)) \in DOMAIN cache
    /\ Len(log) = 2
    /\ log[1] = LogEntry(PowerRequest(PyInt(2), 10), PyInt(1024))
    /\ log[2] = log[1]

\* the requests whose entries row k of the log can be
LogRowOf(k, r) ==
    /\ log[k].operation_type = r.op
    /\ log[k].parameters = RequestParams(r)

\* C29: under every interleaving of overlapping invocations, the
\* invocations for one key that have returned a result have returned the
\* same value, every result saved for the key is that value, and a value the
\* cache holds under the key is that value as well.
C29_SameKeySameValue ==
    /\ \A p, q \in Procs :
          (/\ Done(p) /\ inv[p].outcome = "success"
           /\ Done(q) /\ inv[q].outcome = "success"
           /\ RequestKey(inv[p].req) = RequestKey(inv[q].req))
              => inv[p].returned.result = inv[q].returned.result
    /\ \A p \in Procs :
          (Done(p) /\ inv[p].outcome = "success")
              => /\ RequestKey(inv[p].req) \in DOMAIN cache
                    => PickleLoads(cache[RequestKey(inv[p].req)]) = inv[p].returned.result
                 /\ \A k \in 1..Len(log) :
                       LogRowOf(k, inv[p].req) => log[k].result = str(inv[p].returned.result)
    /\ \A r \in ConcRequests : \A j, k \in 1..Len(log) :
          (LogRowOf(j, r) /\ LogRowOf(k, r)) => log[j].result = log[k].result
    /\ \A r \in ConcRequests : \A k \in 1..Len(log) :
          (LogRowOf(k, r) /\ RequestKey(r) \in DOMAIN cache)
              => str(PickleLoads(cache[RequestKey(r)])) = log[k].result

\* two overlapping invocations for 5!: one computed and wrote the cache, the
\* other was served from it, and both returned 120
C29_Witness ==
    /\ \A p \in Procs : /\ Done(p) /\ inv[p].outcome = "success"
                        /\ inv[p].req = FactorialRequest(5)
                        /\ inv[p].returned.result = PyInt(120)
    /\ \E p, q \in Procs : inv[p].hit /\ ~inv[q].hit
    /\ PickleLoads(cache[RequestKey(FactorialRequest(5))]) = PyInt(120)
    /\ LogCount(FactorialRequest(5)) = 1
    /\ kernelCalls[FactorialRequest(5)] = 1

\* ------------------------------------------------------------------------
\* Fibonacci requests that overlap. _calculate_fibonacci has no await, so
\* the event loop runs it to its end; the tasks interleave at the await of
\* save_operation. The instance is the one built for the request, or one
\* that is kept and shared by the callers
\* ------------------------------------------------------------------------
ConcFibMaxN == 6

ConcFibRequests ==
    {FibonacciRequest(n) : n \in (0..ConcFibMaxN) \cup {DefaultMaxFibonacciN + 1}}

ConcFibInit ==
    /\ settings = DefaultSettings
    /\ PipelineStart(ConcFibRequests)
    /\ GuardIdle
    /\ KeysIdle
    /\ MemoIdle
    /\ AdaptersIdle

ConcFibNext ==
    \/ \E p \in Procs, r \in ConcFibRequests : FibServe(p, r)
    \/ \E p \in Procs, r \in ConcFibRequests : FibServeKept(p, r)
    \/ \E p \in Procs : FibSave(p)
    \/ \E p \in Procs : Return(p)

ConcFibSpec == ConcFibInit /\ [][ConcFibNext]_vars

\* the invocation of task p holds the value its kernel call returned
HoldsFibonacciValue(p) ==
    /\ inv[p].req.op = "fibonacci"
    /\ inv[p].pc = "save" \/ (Done(p) /\ inv[p].outcome = "success")

\* C30: under every interleaving of overlapping fibonacci requests every
\* memo entry i -> v has v = fib(i), every request that got past the
\* validation holds, returns and saves fib(n), and the last kernel call
\* returned fib(n).
C30_ConcurrentMemoHoldsFibonacci ==
    /\ \A i \in DOMAIN memo : memo[i] = fib(i)
    /\ fibReturn # NoReturn => fibReturn.value = fib(fibReturn.n)
    /\ \A p \in Procs :
          HoldsFibonacciValue(p) => inv[p].result = PyInt(fib(inv[p].req.n))
    /\ \A p \in Procs :
          (Done(p) /\ inv[p].outcome = "success")
              => inv[p].returned.result = PyInt(fib(inv[p].req.n))
    /\ \A k \in 1..Len(log) : \E n \in 0..ConcFibMaxN :
          log[k] = LogEntry(FibonacciRequest(n), PyInt(fib(n)))

\* two overlapping requests on a kept instance: the first, for the largest
\* index, filled the memo and awaits its save while the second, for a
\* smaller index, was answered from the memo and has returned
C30_Witness ==
    \E p, q \in Procs :
        /\ inv[p].pc = "save"
        /\ inv[p].req = FibonacciRequest(ConcFibMaxN)
        /\ Done(q) /\ inv[q].outcome = "success"
        /\ inv[q].req = FibonacciRequest(5)
        /\ inv[q].returned.result = PyInt(5)
        /\ fibPasses = 0
        /\ DOMAIN memo = 0..ConcFibMaxN

\* ------------------------------------------------------------------------
\* A Redis server that never answers. The services await cache.get and
\* cache.set directly (power.py 36 and 97, factorial.py 50 and 67), the
\* adapter awaits the client's get and setex directly (cache.py 58 and 95)
\* and the client is built without a socket timeout (cache.py 29-34): no
\* timer runs beside the call, so a call that gets no answer leaves the
\* coroutine suspended at its await
\* ------------------------------------------------------------------------
CacheAwaits == {"cache_get", "cache_set"}

\* the cache call that task p awaits gets no answer
CacheNeverResponds(p) ==
    /\ inv[p].pc \in CacheAwaits
    /\ inv' = [inv EXCEPT ![p].pc = "suspended",
                          ![p].faults = @ \cup {inv[p].pc}]
    /\ UNCHANGED <<settings, cache, log, events, operation_count,
                   operation_duration, invocations, kernelCalls, cacheReliable,
                   auxVars>>

HangRequests == {PowerRequest(PyInt(2), 10), FactorialRequest(5)}

HangInit ==
    /\ settings = DefaultSettings
    /\ PipelineStart(HangRequests)
    /\ GuardIdle
    /\ KeysIdle
    /\ MemoIdle
    /\ AdaptersIdle

HangNext ==
    \/ \E r \in HangRequests : AllIdle /\ Begin(Caller, r)
    \/ \E p \in Procs : CacheNeverResponds(p)
    \/ \E p \in Procs : CacheGet(p)
    \/ \E p \in Procs : CacheSet(p)
    \/ \E p \in Procs : SendEvent(p)
    \/ \E p \in Procs : SaveOperation(p)
    \/ \E p \in Procs : ErrorEvent(p)
    \/ \E p \in Procs : Return(p)

\* the event loop runs whatever is ready to run
HangSpec == HangInit /\ [][HangNext]_vars /\ WF_vars(HangNext)

\* C31: every invocation that was started eventually returns to its
\* caller, with a result or a failure, also when a cache call of it gets no
\* answer.
C31_EveryInvocationReturns ==
    \A p \in Procs : (inv[p].pc = "cache_get") ~> Done(p)

\* the step publishes an event with success = True
PublishesSuccess ==
    /\ Len(events') = Len(events) + 1
    /\ events'[Len(events')].success

\* the step updates the success metrics of operation type t
UpdatesSuccessMetrics(t) ==
    \/ operation_count'[<<t, "success">>] # operation_count[<<t, "success">>]
    \/ operation_duration'[t] # operation_duration[t]

\* what C32 asks of one step of task p
C32_StepInOrder(p) ==
    LET before == inv[p].calls
        after == inv'[p].calls
    IN  /\ after.set = before.set + 1
            => before = [NoCalls EXCEPT !.get = 1, !.kernel = 1]
        /\ (after.event = before.event + 1 /\ PublishesSuccess)
            => before = [NoCalls EXCEPT !.get = 1, !.kernel = 1, !.set = 1]
        /\ (after.save = before.save + 1 /\ CacheAside(inv[p].req))
            => before = [NoCalls EXCEPT !.get = 1, !.kernel = 1, !.set = 1,
                                        !.event = 1]
        /\ \A t \in OperationTypes :
              (UpdatesSuccessMetrics(t) /\ inv'[p] # inv[p] /\ inv[p].req.op = t)
                  => /\ after.save = before.save + 1
                     /\ log' = Append(log, LogEntry(inv[p].req, inv[p].result))
                     /\ operation_count'[<<t, "success">>] = operation_count[<<t, "success">>] + 1
                     /\ operation_duration'[t] = operation_duration[t] + 1

\* C32: on an invocation that computes a fresh result every step keeps the
\* order cache get, cache set, success event, append, success metrics: the
\* cache is written only after the one cache read and before any event or
\* append, the success event is published only after the cache write has
\* returned and before the append, the append is attempted only after both,
\* and the success counter and the histogram change only in the step whose
\* append succeeded.
C32_PortCallsInOrder == [][\A p \in Procs : C32_StepInOrder(p)]_vars

\* 5! computed with every port answering: one call of each port, then the
\* success metrics
C32_Witness ==
    \E p \in Procs :
        /\ Done(p)
        /\ inv[p].req = FactorialRequest(5)
        /\ inv[p].outcome = "success"
        /\ inv[p].faults = {}
        /\ inv[p].calls = [NoCalls EXCEPT !.get = 1, !.kernel = 1, !.set = 1,
                                          !.event = 1, !.save = 1]
        /\ operation_count[<<"factorial", "success">>] = 1
        /\ operation_duration["factorial"] = 1
        /\ Len(log) = 1 /\ Len(events) = 1

\* the rows of the log with operation type t
RowsOfType(t) == Cardinality({k \in 1..Len(log) : log[k].operation_type = t})

\* the step in which the invocation of task p returns a failure to its caller
ReturnsFailure(p) ==
    /\ inv[p].pc # "done"
    /\ inv'[p].pc = "done"
    /\ inv'[p].outcome = "failure"

\* the step in which the invocation of task p is served from the cache
ServedFromCache(p) == ~inv[p].hit /\ inv'[p].hit

C33_Counts ==
    \A t \in OperationTypes :
        /\ operation_count[<<t, "success">>] = RowsOfType(t)
        /\ operation_duration[t] = RowsOfType(t)

C33_Step ==
    /\ \A t \in OperationTypes :
          operation_count'[<<t, "error">>] = operation_count[<<t, "error">>]
              + Cardinality({p \in Procs : ReturnsFailure(p) /\ inv'[p].req.op = t})
    /\ \A p \in Procs :
          ServedFromCache(p) => /\ operation_count' = operation_count
                                /\ operation_duration' = operation_duration
                                /\ kernelCalls' = kernelCalls
                                /\ log' = log

\* C33: in every state, for each operation type, the success counter and
\* the number of histogram observations equal the number of log rows of
\* that type; in every step the error counter of a type grows by the number
\* of invocations of that type that return a failure in the step, and a
\* step that serves an invocation from the cache changes no counter, no
\* histogram, no kernel call count and no log row.
C33_MetricsMatchOutcomes == []C33_Counts /\ [][C33_Step]_vars

\* 5! computed and saved, then asked again and served from the cache: one
\* row, one success counted, no error
C33_Witness ==
    \E p \in Procs :
        /\ Done(p) /\ inv[p].hit
        /\ inv[p].req = FactorialRequest(5)
        /\ invocations = 2
        /\ operation_count[<<"factorial", "success">>] = 1
        /\ operation_count[<<"factorial", "error">>] = 0
        /\ operation_duration["factorial"] = 1
        /\ RowsOfType("factorial") = 1

\* the event e is the one a service builds for request r: on success the
\* string of the value the checks and the kernel give for r and no error, on
\* failure no result and a message
EventOf(e, r) ==
    LET c == Compute(settings, r)
    IN  /\ e.event_type = "math_operation"
        /\ e.operation_type = r.op
        /\ e.parameters = RequestParams(r)
        /\ e.success => /\ e.error = None
                         /\ e.result # NoneStr
                         /\ c.error = None
                         /\ e.result = str(c.value)
                         /\ ValidRequest(r) => e.result = str(ExpectedResult(r))
        /\ ~e.success => /\ e.result = NoneStr
                          /\ e.error # None
                          /\ e.error \in {c.error, MsgSaveFailed}

C34_WellFormed ==
    \A k \in 1..Len(events) : \E r \in Requests : CacheAside(r) /\ EventOf(events[k], r)

\* a step that hands an event to the producer hands the event of the
\* request of the task that takes the step
C34_Step ==
    Len(events') # Len(events)
        => /\ Len(events') = Len(events) + 1
           /\ \E p \in Procs :
                 /\ inv'[p] # inv[p]
                 /\ EventOf(events'[Len(events')], inv[p].req)
                 /\ events'[Len(events')].success
                        => events'[Len(events')].result = str(inv[p].result)
                 /\ ~events'[Len(events')].success
                        => events'[Len(events')].error = inv[p].error

ReturnedFresh(p) ==
    /\ Done(p)
    /\ inv[p].outcome = "success"
    /\ ~inv[p].hit

\* C35: the duration an invocation reports in its event, its log entry and
\* its histogram observation covers every port call of the invocation: when
\* the invocation has returned a computed result, the timer reading it
\* reported was taken after all the cache, event and persistence calls it
\* made had come back.
C35_DurationSpansPipeline ==
    \A p \in Procs :
        ReturnedFresh(p) => inv[p].duration_ms = PortCallsDone(inv[p].calls)

\* the ceilings or the overflow guard of calculate_power refuse request r
\* (power.py 50-94)
PowerRefused(r) == r.op = "power" /\ PowerValidationError(settings, r).stage # "ok"

\* C36: with the ceilings fixed and the cache written by the services only,
\* no calculate_power invocation has returned success, from the cache or
\* computed, for a request that the ceilings or the overflow guard refuse;
\* no key of a refused request is in the cache, and every key in the cache
\* is the key of a request that passes all the checks.
C36_RefusedNeverServed ==
    /\ settings = DefaultSettings
    /\ \A p \in Procs :
          (Done(p) /\ inv[p].outcome = "success") => ~PowerRefused(inv[p].req)
    /\ \A r \in Requests : PowerRefused(r) => RequestKey(r) \notin DOMAIN cache
    /\ \A k \in DOMAIN cache :
          \E r \in Requests : /\ CacheAside(r)
                               /\ RequestKey(r) = k
                               /\ Compute(settings, r).error = None

\* 150**25, which the guard refuses, asked after 2**10 was computed and
\* cached: refused again, and only the key of 2**10 is in the cache
C36_Witness ==
    \E p \in Procs :
        /\ Done(p)
        /\ inv[p].req = PowerRequest(PyInt(150), 25)
        /\ inv[p].outcome = "failure"
        /\ inv[p].stage = "guard"
        /\ inv[p].calls.get = 1
        /\ DOMAIN cache = {RequestKey(PowerRequest(PyInt(2), 10))}

\* ---------------------------------------------------------------------------
\* SqliteRepository called on its own (repositories/sqlite_repo.py 113-163):
\* save_operation on a session, and the two queries over the table.  The
\* table is the variable log; its rows carry the timestamp of the operation
\* they were made from, which the caller supplies and which need not grow
\* with the order of the commits.
\* ---------------------------------------------------------------------------

MaxRows == 3

MaxStamp == 2

MaxLimit == 3

\* MathOperationModel.from_domain (sqlite_repo.py 57-66): the row of an
\* operation, its result as a string, its timestamp copied.
from_domain(r, result, ts) == LogEntry(r, result) @@ [timestamp |-> ts]

RepoOperations ==
    { from_domain(PowerRequest(PyInt(2), 10), PyInt(1024), ts) : ts \in 1..MaxStamp }
        \cup { from_domain(FactorialRequest(5), PyInt(120), ts) : ts \in 1..MaxStamp }

QueryTypes == OperationTypes \cup {None}

\* A session that keeps what add put into it after a failed commit.
SessionSave_NoRollback(table, pending, entry, fault) ==
    LET added == Append(pending, entry)
    IN  IF fault
        THEN [table |-> table, pending |-> added, raised |-> TRUE]
        ELSE [table |-> table \o added, pending |-> <<>>, raised |-> FALSE]

\* save_operation (sqlite_repo.py 123-131): session.add puts the row among
\* the pending ones; commit writes every pending row, or raises, and then
\* rollback drops the pending rows and the exception is raised again.
SessionSave(table, pending, entry, fault) ==
    LET added == Append(pending, entry)
    IN  IF fault
        THEN [table |-> table, pending |-> <<>>, raised |-> TRUE]
        ELSE [table |-> table \o added, pending |-> <<>>, raised |-> FALSE]

\* "if operation_type:" (sqlite_repo.py 139-142, 157-160): the where clause is
\* added for a type that is given.
WhereType(table, operation_type) ==
    IF operation_type = None
    THEN table
    ELSE SelectSeq(table, LAMBDA e : e.operation_type = operation_type)

\* One row put into rows already in ascending timestamp order.
PlaceByTimestampAsc(placed, e) ==
    LET before == SelectSeq(placed, LAMBDA o : o.timestamp <= e.timestamp)
        after == SelectSeq(placed, LAMBDA o : o.timestamp > e.timestamp)
    IN  before \o <<e>> \o after

\* order_by(timestamp.desc()) (sqlite_repo.py 144): one row put into rows
\* already in descending timestamp order.
PlaceByTimestampDesc(placed, e) ==
    LET before == SelectSeq(placed, LAMBDA o : o.timestamp >= e.timestamp)
        after == SelectSeq(placed, LAMBDA o : o.timestamp < e.timestamp)
    IN  before \o <<e>> \o after

RECURSIVE OrderedBy(_, _, _)
OrderedBy(Place(_, _), rows, k) ==
    IF k = 0 THEN <<>> ELSE Place(OrderedBy(Place, rows, k - 1), rows[k])

\* The query with its rows oldest first.
get_operations_Ascending(table, operation_type, limit) ==
    LET chosen == WhereType(table, operation_type)
        ordered == OrderedBy(PlaceByTimestampAsc, chosen, Len(chosen))
    IN  SubSeq(ordered, 1, IF limit < Len(ordered) THEN limit ELSE Len(ordered))

\* get_operations (sqlite_repo.py 133-149): where, order by timestamp
\* descending, limit; each row converted back with to_domain, which keeps
\* the type, the result string and the timestamp.
get_operations(table, operation_type, limit) ==
    LET chosen == WhereType(table, operation_type)
        ordered == OrderedBy(PlaceByTimestampDesc, chosen, Len(chosen))
    IN  SubSeq(ordered, 1, IF limit < Len(ordered) THEN limit ELSE Len(ordered))

\* get_operation_count (sqlite_repo.py 151-163): count(id) under the same
\* where clause, 0 for no row.
get_operation_count(table, operation_type) ==
    Len(WhereType(table, operation_type))

\* A caller saves one operation; the commit succeeds or raises.
RepoSave ==
    \E entry \in RepoOperations, fault \in BOOLEAN :
        LET done == SessionSave(log, repo.pending, entry, fault)
        IN  /\ Len(log) < MaxRows
            /\ log' = done.table
            /\ repo' = [pending |-> done.pending,
                        saved |-> IF done.raised THEN repo.saved
                                  ELSE Append(repo.saved, entry),
                        last |-> [op |-> "save_operation", operation_type |-> None,
                                  limit |-> 0, entry |-> entry,
                                  raised |-> done.raised, value |-> None]]
            /\ UNCHANGED <<settings, cache, events, operation_count, operation_duration,
                           inv, invocations, kernelCalls, cacheReliable, functionVars,
                           redisCache, producer, app>>

\* A caller asks for the most recent operations.
RepoGetOperations ==
    \E operation_type \in QueryTypes, limit \in 0..MaxLimit :
        /\ repo' = [repo EXCEPT !.last =
                        [op |-> "get_operations", operation_type |-> operation_type,
                         limit |-> limit, entry |-> None, raised |-> FALSE,
                         value |-> get_operations(log, operation_type, limit)]]
        /\ UNCHANGED <<settings, cache, log, events, operation_count, operation_duration,
                       inv, invocations, kernelCalls, cacheReliable, functionVars,
                       redisCache, producer, app>>

\* A caller asks for the number of operations.
RepoGetOperationCount ==
    \E operation_type \in QueryTypes :
        /\ repo' = [repo EXCEPT !.last =
                        [op |-> "get_operation_count", operation_type |-> operation_type,
                         limit |-> 0, entry |-> None, raised |-> FALSE,
                         value |-> get_operation_count(log, operation_type)]]
        /\ UNCHANGED <<settings, cache, log, events, operation_count, operation_duration,
                       inv, invocations, kernelCalls, cacheReliable, functionVars,
                       redisCache, producer, app>>

RepoInit ==
    /\ settings = DefaultSettings
    /\ PipelineStart(Requests)
    /\ GuardIdle
    /\ KeysIdle
    /\ MemoIdle
    /\ AdaptersIdle

RepoNext ==
    \/ RepoSave
    \/ RepoGetOperations
    \/ RepoGetOperationCount

RepoSpec == RepoInit /\ [][RepoNext]_vars

\* The saved operations a query for a type is about.
SavedOfType(operation_type) ==
    { k \in 1..Len(repo.saved) :
        operation_type = None \/ repo.saved[k].operation_type = operation_type }

\* The saved operations more recent than a timestamp.
SavedAfter(operation_type, ts) ==
    { k \in SavedOfType(operation_type) : repo.saved[k].timestamp > ts }

C37_CountIsSaved ==
    repo.last.op = "get_operation_count"
        => repo.last.value = Cardinality(SavedOfType(repo.last.operation_type))

C37_RowsAreRecent ==
    repo.last.op = "get_operations"
        => LET rows == repo.last.value
               t == repo.last.operation_type
               n == Cardinality(SavedOfType(t))
           IN  /\ Len(rows) <= repo.last.limit
               /\ Len(rows) = IF repo.last.limit < n THEN repo.last.limit ELSE n
               /\ \A k \in 1..Len(rows) :
                    /\ t # None => rows[k].operation_type = t
                    /\ \E j \in SavedOfType(t) : repo.saved[j] = rows[k]
               /\ \A k \in 1..(Len(rows) - 1) :
                    rows[k].timestamp >= rows[k + 1].timestamp
               /\ Len(rows) > 0 =>
                    Cardinality(SavedAfter(t, rows[Len(rows)].timestamp))
                        = Cardinality({ k \in 1..Len(rows) :
                                          rows[k].timestamp > rows[Len(rows)].timestamp })

\* C37: after any sequence of save_operation calls, get_operation_count(t)
\* is the number of successfully saved operations of type t (of all of them
\* when t is omitted), and get_operations(t, limit) returns at most limit
\* operations, only of type t when t is given, most recent first, none of
\* those left out being more recent than one returned.
C37_QueriesMatchSaved ==
    /\ C37_CountIsSaved
    /\ C37_RowsAreRecent

\* Three saved operations, the power ones at timestamps 1 and 2 in that
\* order, and the query for one power operation answers the one at 2.
C37_Witness ==
    /\ Len(repo.saved) = 3
    /\ Cardinality(SavedOfType("power")) = 2
    /\ repo.saved[1].operation_type = "power"
    /\ repo.saved[1].timestamp = 1
    /\ repo.last.op = "get_operations"
    /\ repo.last.operation_type = "power"
    /\ repo.last.limit = 1
    /\ Len(repo.last.value) = 1
    /\ repo.last.value[1].timestamp = 2

C38_NoPartialEntry ==
    /\ log = repo.saved
    /\ repo.pending = <<>>
    /\ get_operation_count(log, None) = Len(repo.saved)

C38_FailedSaveStep ==
    (/\ repo'.last.op = "save_operation"
     /\ repo'.last.raised
     /\ repo'.last # repo.last)
        => /\ log' = log
           /\ get_operation_count(log', None) = get_operation_count(log, None)
           /\ repo'.pending = <<>>
           /\ repo'.saved = repo.saved

\* C38: a save_operation call that fails rolls the session back and raises:
\* the table and its count are what they were before the call and no row
\* stays pending, so the table always holds exactly the operations whose
\* save succeeded.
C38_FailedSaveLeavesLog ==
    /\ []C38_NoPartialEntry
    /\ [][C38_FailedSaveStep]_vars

\* The last call was a save that failed, on a table of one row: the row it
\* was given is not in the table and nothing is pending.
C38_Witness ==
    /\ repo.last.op = "save_operation"
    /\ repo.last.raised
    /\ Len(log) = 1
    /\ repo.last.entry # log[1]
    /\ get_operation_count(log, None) = 1
    /\ repo.pending = <<>>

\* ---------------------------------------------------------------------------
\* The lifespan of the application (main.py 29-72) and what requests publish
\* between startup and shutdown.
\* ---------------------------------------------------------------------------

\* The names the module infra.messaging defines (messaging.py 3-16, 153-176).
\* infra/__init__.py (3-6) binds cache to the RedisCache object but binds no
\* name messaging, so "from infra import messaging" (main.py 12-21) is this
\* module.
MessagingNames ==
    {"json", "datetime", "timezone", "Any", "Dict", "Optional",
     "AIOKafkaProducer", "KafkaError", "settings", "get_logger", "logger",
     "KafkaProducer", "kafka_producer", "send_operation_event", "send_api_event"}

\* messaging.<name>: the attribute, or AttributeError
ModuleAttribute(name) ==
    IF name \in MessagingNames THEN "found" ELSE "AttributeError"

\* cache.connect() (cache.py 19-39) as the startup calls it
ConnectedCache(c, clientError) ==
    IF ~c.enabled
    THEN [c EXCEPT !.last = CallOf("connect", c.held, FALSE, Returned(None))]
    ELSE [c EXCEPT !.held = ~clientError,
                   !.closed = FALSE,
                   !.last = CallOf("connect", c.held, clientError, Returned(None))]

\* KafkaProducer.start (messaging.py 22-42) on the global producer
StartedProducer(k, clientError) ==
    IF ~k.enabled
    THEN [k EXCEPT !.last = CallOf("start", k.held, FALSE, Returned(None))]
    ELSE [k EXCEPT !.held = ~clientError,
                   !.stopped = FALSE,
                   !.last = CallOf("start", k.held, clientError, Returned(None))]

\* Startup (main.py 32-53): create the tables; with redis_enabled connect the
\* cache; with kafka_enabled await messaging.start(), every exception of
\* which ends in a warning.
LifespanStartup ==
    /\ app.phase = "created"
    /\ \E redisError \in BOOLEAN :
         LET start == ModuleAttribute("start")
         IN  /\ redisCache' = IF redisCache.enabled
                              THEN ConnectedCache(redisCache, redisError)
                              ELSE redisCache
             /\ producer' = IF producer.enabled /\ start = "found"
                            THEN StartedProducer(producer, ~app.broker)
                            ELSE producer
             /\ app' = [app EXCEPT
                          !.phase = "running",
                          !.connect_calls = IF redisCache.enabled THEN 1 ELSE 0,
                          !.start_calls =
                              IF producer.enabled /\ start = "found" THEN 1 ELSE 0,
                          !.warnings =
                              IF producer.enabled /\ start # "found"
                              THEN {"Failed to start Kafka producer"} ELSE {}]
    /\ UNCHANGED <<settings, pipelineVars, functionVars, repo>>

\* Shutdown (main.py 55-72): with redis_enabled disconnect the cache, with
\* kafka_enabled await messaging.stop(); every exception ends in a warning.
LifespanShutdown ==
    /\ app.phase = "running"
    /\ \E clientError \in BOOLEAN :
         LET stop == ModuleAttribute("stop")
         IN  /\ redisCache' =
                    IF ~redisCache.enabled THEN redisCache
                    ELSE IF ~redisCache.held
                    THEN [redisCache EXCEPT
                            !.last = CallOf("disconnect", FALSE, FALSE, Returned(None))]
                    ELSE [redisCache EXCEPT
                            !.closed = TRUE,
                            !.last = CallOf("disconnect", TRUE, clientError,
                                            IF clientError THEN Raises
                                            ELSE Returned(None))]
             /\ producer' =
                    IF producer.enabled /\ stop = "found" /\ producer.held
                    THEN [producer EXCEPT
                            !.stopped = TRUE,
                            !.last = CallOf("stop", TRUE, FALSE, Returned(None))]
                    ELSE producer
             /\ app' = [app EXCEPT
                          !.phase = "stopped",
                          !.warnings =
                              @ \cup (IF producer.enabled /\ stop # "found"
                                      THEN {"Error stopping Kafka producer"} ELSE {})
                                \cup (IF redisCache.enabled /\ redisCache.held
                                         /\ clientError
                                      THEN {"Error disconnecting Redis"} ELSE {})]
    /\ UNCHANGED <<settings, pipelineVars, functionVars, repo>>

\* A request reads or writes the cache while the application runs
\* (power.py 36 and 97).
AppCacheGet == app.phase = "running" /\ \E r \in StoredRequests : RcGet(RequestKey(r))

AppCacheSet ==
    /\ app.phase = "running"
    /\ \E r \in StoredRequests, v \in StoredValues : RcSet(RequestKey(r), v)

\* A service publishes an operation event through the module's
\* send_operation_event (messaging.py 157-173; power.py 119).
AppSendOperationEvent == app.phase = "running" /\ KpSendOperationEvent

\* The middleware publishes an API event, with kafka_enabled only
\* (main.py 121-132; messaging.py 176-190).
AppSendApiEvent == app.phase = "running" /\ producer.enabled /\ KpSendApiEvent

StartupInit ==
    /\ settings = DefaultSettings
    /\ PipelineStart(Requests)
    /\ GuardIdle
    /\ KeysIdle
    /\ MemoIdle
    /\ repo = NewRepository
    /\ \E enabled \in BOOLEAN : redisCache = NewRedisCache(enabled)
    /\ \E enabled \in BOOLEAN : producer = NewKafkaProducer(enabled)
    /\ \E broker \in BOOLEAN : app = AppCreated(broker)

StartupNext ==
    \/ LifespanStartup
    \/ AppCacheGet
    \/ AppCacheSet
    \/ AppSendOperationEvent
    \/ AppSendApiEvent
    \/ LifespanShutdown

StartupSpec == StartupInit /\ [][StartupNext]_vars

SendCalls == {"send_operation_event", "send_api_event"}

C39_ProducerStarted ==
    (app.phase = "running" /\ producer.enabled /\ app.broker)
        => /\ producer.held
           /\ (producer.last.op \in SendCalls /\ ~producer.last.clientError)
                => producer.last.value = TRUE

C39_DisabledNeverInvoked ==
    /\ ~redisCache.enabled => app.connect_calls = 0 /\ ~redisCache.last.raised
    /\ ~producer.enabled => app.start_calls = 0 /\ ~producer.last.raised

\* C39: after startup with kafka_enabled and a reachable broker the global
\* producer is started, so an event published before shutdown and not
\* refused by the broker is sent and its send function returns True; with
\* kafka_enabled or redis_enabled off the start or connect is never invoked
\* and no call of a request raises.
C39_StartupStartsProducer ==
    /\ C39_ProducerStarted
    /\ C39_DisabledNeverInvoked
====
